---- MODULE Spec2Model ----
(***************************************************************************)
(* A model of folder-snap (src/src/index.ts): the FolderSnap class, its    *)
(* ignore filter, the recursive tree walker, the v3 writer, the readers,   *)
(* and the two older writers whose archives the reader is said to accept.  *)
(*                                                                         *)
(* Strings are sequences of one-character strings, so that the character   *)
(* level operations of the code (the sanitising regex, the .snap suffix    *)
(* regex, the leading-dot test, ignore patterns) are computed, not assumed.*)
(* A path is the sequence of its segments; its string form is PathStr.     *)
(* File bytes are sequences of byte tokens ("A", "NUL", "x80", ...).       *)
(* The text of an archive file is kept as the JSON document it serialises, *)
(* tagged by its textual shape: "json" (JSON.stringify output), "marked"   *)
(* (comment prologue + sentinel markers around the JSON), "raw" (bytes).   *)
(***************************************************************************)
EXTENDS Integers, Sequences, FiniteSets, TLC

VARIABLES
    disk,           \* the file system: path -> node
    ig,             \* FolderSnap.ig: the rules accumulated by this instance
    includeHidden,  \* FolderSnap.options.includeHidden
    order,          \* the order in which fs.readdirSync lists names
    last,           \* the call made last and what it returned
    nops            \* number of top-level calls made (also the clock)

vars == <<disk, ig, includeHidden, order, last, nops>>

\* ---------------------------------------------------------------- bounds
MaxEntries == 5
MaxOps == 2

\* ----------------------------------------------------------------- names
N_A == <<"A">>
N_B == <<"B">>
N_R == <<"R">>
N_a == <<"a">>
N_c == <<"c">>
N_d == <<"d">>
N_e == <<"e">>
N_a_b == <<"a", "_", "b">>
N_b_c == <<"b", "_", "c">>
N_hid == <<".", "h">>
N_log == <<"x", ".", "l", "o", "g">>
N_node_modules == <<"n", "o", "d", "e", "_", "m", "o", "d", "u", "l", "e", "s">>
N_gitignore == <<".", "g", "i", "t", "i", "g", "n", "o", "r", "e">>
N_content == <<"c", "o", "n", "t", "e", "n", "t">>
N_metadata_json == <<"m", "e", "t", "a", "d", "a", "t", "a", ".", "j", "s", "o", "n">>
N_out_snap == <<"o", ".", "s", "n", "a", "p">>
N_out_txt == <<"o", ".", "t", "x", "t">>
N_leg_snap == <<"l", ".", "s", "n", "a", "p">>
N_v2_snap == <<"v", ".", "s", "n", "a", "p">>

\* ------------------------------------------------------------ path module
IsPrefix(p, q) == Len(p) <= Len(q) /\ SubSeq(q, 1, Len(p)) = p

IsProperPrefix(p, q) == Len(p) < Len(q) /\ SubSeq(q, 1, Len(p)) = p

EndsWith(s, suffix) ==
    Len(suffix) <= Len(s) /\ SubSeq(s, Len(s) - Len(suffix) + 1, Len(s)) = suffix

dirname(p) == SubSeq(p, 1, Len(p) - 1)

basename(p) == p[Len(p)]

\* the segment ".."
N_up == <<".", ".">>

\* path.normalize: an empty segment and "." are dropped (so a second
\* argument that is absolute is taken below the first), and ".." takes
\* back the segment before it
RECURSIVE normalizeInto(_, _)
normalizeInto(done, rest) ==
    IF rest = <<>> THEN done
    ELSE IF Head(rest) = <<>> \/ Head(rest) = <<".">>
    THEN normalizeInto(done, Tail(rest))
    ELSE IF Head(rest) = N_up /\ done # <<>> /\ done[Len(done)] # N_up
    THEN normalizeInto(SubSeq(done, 1, Len(done) - 1), Tail(rest))
    ELSE normalizeInto(Append(done, Head(rest)), Tail(rest))

normalize(p) == normalizeInto(<<>>, p)

\* path.join(p, q): the segments of both, normalized
join(p, q) == normalize(p \o q)

relative(basePath, p) == SubSeq(p, Len(basePath) + 1, Len(p))

RECURSIVE PathStr(_)
PathStr(p) ==
    IF Len(p) = 0 THEN <<>>
    ELSE IF Len(p) = 1 THEN p[1]
    ELSE p[1] \o <<"/">> \o PathStr(Tail(p))

\* --------------------------------------------------------------- fs module
\* every node carries its read permission: a directory that cannot be listed
\* and a file that cannot be read make readdirSync and readFileSync throw
Directory == [type |-> "directory", readable |-> TRUE]

LockedDirectory == [type |-> "directory", readable |-> FALSE]

NoDoc == [none |-> TRUE]

RawFile(bytes) ==
    [type |-> "file", fmt |-> "raw", bytes |-> bytes, doc |-> NoDoc, readable |-> TRUE]

LockedFile(bytes) ==
    [type |-> "file", fmt |-> "raw", bytes |-> bytes, doc |-> NoDoc, readable |-> FALSE]

TextFile(fmt, doc) ==
    [type |-> "file", fmt |-> fmt, bytes |-> <<>>, doc |-> doc, readable |-> TRUE]

\* fs.readFileSync(p) returns (it throws on a directory and on a file that
\* cannot be read)
readOk(d, p) == p \in DOMAIN d /\ d[p].type = "file" /\ d[p].readable

\* the error of fs.readdirSync(p), "" when it returns
readdirError(d, p) ==
    IF p # <<>> /\ p \notin DOMAIN d THEN "ENOENT"
    ELSE IF p # <<>> /\ d[p].type # "directory" THEN "ENOTDIR"
    ELSE IF p # <<>> /\ ~d[p].readable THEN "EACCES"
    ELSE ""

\* the empty path is the working directory, which always exists
existsSync(d, p) == p = <<>> \/ p \in DOMAIN d

isDirectory(d, p) == p = <<>> \/ (p \in DOMAIN d /\ d[p].type = "directory")

readdirSync(d, p, ord) == SelectSeq(ord, LAMBDA n : Append(p, n) \in DOMAIN d)

Prefixes(p) == {SubSeq(p, 1, k) : k \in 1..Len(p)}

\* mkdirSync(p, {recursive: true}) throws when p or an ancestor is a file
mkdirOk(d, p) == \A q \in Prefixes(p) : q \in DOMAIN d => d[q].type = "directory"

mkdirRecursive(d, p) ==
    [q \in DOMAIN d \cup Prefixes(p) |-> IF q \in DOMAIN d THEN d[q] ELSE Directory]

\* the longest file name the file system takes (NAME_MAX)
NameMax == 255

\* writeFileSync(p, data) throws when p is a directory, when its parent is
\* none, and when its name is longer than the file system takes
writeOk(d, p) ==
    /\ isDirectory(d, dirname(p))
    /\ ~(p \in DOMAIN d /\ d[p].type = "directory")
    /\ Len(basename(p)) <= NameMax

writeFile(d, p, node) == [q \in DOMAIN d \cup {p} |-> IF q = p THEN node ELSE d[q]]

rmSyncNothing(d, p) == d

\* rmSync(p, {recursive: true, force: true})
rmSync(d, p) == [q \in {x \in DOMAIN d : ~IsPrefix(p, x)} |-> d[q]]

\* ---------------------------------------------------------- ignore filter
\* One parsed line of an ignore file, as the 'ignore' package reads it: a
\* leading '!' negates, a trailing '/' restricts the rule to directories, a
\* leading '*' matches any prefix of a segment.
ParseRule(line) ==
    LET negative == Len(line) > 0 /\ line[1] = "!"
        b1 == IF negative THEN Tail(line) ELSE line
        dirOnly == Len(b1) > 0 /\ b1[Len(b1)] = "/"
        b2 == IF dirOnly THEN SubSeq(b1, 1, Len(b1) - 1) ELSE b1
        star == Len(b2) > 0 /\ b2[1] = "*"
    IN [negative |-> negative, dirOnly |-> dirOnly, star |-> star,
        text |-> IF star THEN Tail(b2) ELSE b2]

RECURSIVE SplitLines(_, _)
SplitLines(text, cur) ==
    IF text = <<>> THEN <<cur>>
    ELSE IF Head(text) = "\n" THEN <<cur>> \o SplitLines(Tail(text), <<>>)
    ELSE SplitLines(Tail(text), Append(cur, Head(text)))

\* ig.add(text): blank lines and '#' comments are dropped
ParseRules(text) ==
    LET lines == SelectSeq(SplitLines(text, <<>>), LAMBDA l : l # <<>> /\ l[1] # "#")
    IN [i \in 1..Len(lines) |-> ParseRule(lines[i])]

DefaultIgnores == <<
    <<"n", "o", "d", "e", "_", "m", "o", "d", "u", "l", "e", "s", "/">>,
    <<"v", "e", "n", "v", "/">>,
    <<".", "g", "i", "t", "/">>,
    <<"*", ".", "l", "o", "g">>,
    <<".", "D", "S", "_", "S", "t", "o", "r", "e">>,
    <<"T", "h", "u", "m", "b", "s", ".", "d", "b">> >>

\* the built-in rules are added before the rule file is read, so they stay
\* when that read throws
loadGitignore(d, rules, folderPath) ==
    LET gitignorePath == join(folderPath, <<N_gitignore>>)
        withDefaults == rules \o [i \in 1..Len(DefaultIgnores) |-> ParseRule(DefaultIgnores[i])]
    IN IF existsSync(d, gitignorePath) /\ readOk(d, gitignorePath)
       THEN withDefaults \o ParseRules(d[gitignorePath].bytes)
       ELSE withDefaults

\* the error loadGitignore throws, "" when it returns
loadGitignoreError(d, folderPath) ==
    LET gitignorePath == join(folderPath, <<N_gitignore>>)
    IN IF existsSync(d, gitignorePath) /\ ~readOk(d, gitignorePath) THEN "EACCES" ELSE ""

\* a rule tested against one path; the path is a directory for the package
\* only when it is given with a trailing slash, which is how it tests the
\* ancestors of the path it was asked about, never that path itself
RuleMatches(rule, segment, asDirectory) ==
    /\ IF rule.star THEN EndsWith(segment, rule.text) ELSE segment = rule.text
    /\ rule.dirOnly => asDirectory

\* the last matching rule decides
TestOne(rules, segment, asDirectory) ==
    LET hits == {i \in 1..Len(rules) : RuleMatches(rules[i], segment, asDirectory)}
    IN /\ hits # {}
       /\ ~rules[CHOOSE i \in hits : \A j \in hits : j <= i].negative

\* ig.ignores(relativePath): ancestors first, an ignored ancestor ignores the path
ignores(rules, relativePath) ==
    \E k \in 1..Len(relativePath) :
        TestOne(rules, relativePath[k], k < Len(relativePath))

startsWithDot(name) == Len(name) > 0 /\ name[1] = "."

shouldIgnoreRulesOnly(rules, hidden, relativePath) == ignores(rules, relativePath)

shouldIgnoreHiddenOnly(rules, hidden, relativePath) ==
    ~hidden /\ startsWithDot(basename(relativePath))

shouldIgnore(rules, hidden, relativePath) ==
    IF ~hidden /\ startsWithDot(basename(relativePath))
    THEN TRUE
    ELSE ignores(rules, relativePath)

\* ------------------------------------------------------------ tree walker
IsFileItem(item) == item.type = "file"

IsDirItem(item) == item.type = "directory"

countFiles(s) == Len(SelectSeq(s, IsFileItem))

countDirectories(s) == Len(SelectSeq(s, IsDirItem))

pushDirectoryLast(structure, entry, subStructure) ==
    (structure \o subStructure) \o <<entry>>

\* structure.push(directory); structure.push(...subStructure)
pushDirectory(structure, entry, subStructure) ==
    Append(structure, entry) \o subStructure

RECURSIVE readFolderStructure(_, _, _, _, _, _)
RECURSIVE walkItems(_, _, _, _, _, _, _, _)
walkItems(d, rules, hidden, ord, folderPath, basePath, items, structure) ==
    IF items = <<>> THEN structure
    ELSE
      LET item == Head(items)
          itemPath == Append(folderPath, item)
          relativePath == relative(basePath, itemPath)
          pushed ==
            IF shouldIgnore(rules, hidden, relativePath) THEN structure
            ELSE IF d[itemPath].type = "directory"
            THEN pushDirectory(structure,
                    [type |-> "directory", path |-> relativePath, name |-> item],
                    readFolderStructure(d, rules, hidden, ord, itemPath, basePath))
            ELSE Append(structure,
                    [type |-> "file", path |-> relativePath, name |-> item,
                     size |-> Len(d[itemPath].bytes),
                     contentIndex |-> countFiles(structure)])
      IN walkItems(d, rules, hidden, ord, folderPath, basePath, Tail(items), pushed)

readFolderStructure(d, rules, hidden, ord, folderPath, basePath) ==
    walkItems(d, rules, hidden, ord, folderPath, basePath,
              readdirSync(d, folderPath, ord), <<>>)

\* the error readFolderStructure throws, "" when it returns: readdirSync
\* throws on the folder itself or on a directory the walk descends into, and
\* nothing in the walker catches it
walkError(d, folderPath, structure) ==
    IF readdirError(d, folderPath) # "" THEN readdirError(d, folderPath)
    ELSE IF \E i \in DOMAIN structure :
                /\ IsDirItem(structure[i])
                /\ readdirError(d, join(folderPath, structure[i].path)) # ""
    THEN "EACCES"
    ELSE ""

RECURSIVE SumSizes(_)
SumSizes(files) ==
    IF files = <<>> THEN 0 ELSE Head(files).size + SumSizes(Tail(files))

\* ------------------------------------------------------------- v3 writer
Digits == <<"0", "1", "2", "3", "4", "5", "6", "7", "8", "9">>

RECURSIVE Decimal(_)
Decimal(n) ==
    IF n < 10 THEN <<Digits[n + 1]>>
    ELSE Decimal(n \div 10) \o <<Digits[(n % 10) + 1]>>

\* the characters of the class [a-zA-Z0-9._-]
SafeChars ==
    {"a", "b", "c", "d", "e", "f", "g", "h", "i", "j", "k", "l", "m",
     "n", "o", "p", "q", "r", "s", "t", "u", "v", "w", "x", "y", "z",
     "A", "B", "C", "D", "E", "F", "G", "H", "I", "J", "K", "L", "M",
     "N", "O", "P", "Q", "R", "S", "T", "U", "V", "W", "X", "Y", "Z",
     "0", "1", "2", "3", "4", "5", "6", "7", "8", "9", ".", "_", "-"}

\* filePath.replace(/[^a-zA-Z0-9._-]/g, '_')
sanitize(s) == [i \in 1..Len(s) |-> IF s[i] \in SafeChars THEN s[i] ELSE "_"]

generateContentFilename(filePath, index) ==
    <<"c", "o", "n", "t", "e", "n", "t", "_">> \o Decimal(index) \o <<"_">>
        \o sanitize(PathStr(filePath)) \o <<".", "b", "i", "n">>

DotSnap == <<".", "s", "n", "a", "p">>

UnderSnap == <<"_", "s", "n", "a", "p">>

\* outputPath.replace(/\.snap$/, '_snap'): the match, if any, lies in the
\* last segment
replaceSnapSuffix(outputPath) ==
    LET name == basename(outputPath)
    IN IF EndsWith(name, DotSnap)
       THEN Append(dirname(outputPath),
                   SubSeq(name, 1, Len(name) - Len(DotSnap)) \o UnderSnap)
       ELSE outputPath

NoStats == [none |-> TRUE]

\* an outcome of a call: `threw` tells an exception that left the method
\* from a value it returned
Returned(success, error, stats) ==
    [success |-> success, error |-> error, stats |-> stats, threw |-> FALSE]

Thrown(error) == [success |-> FALSE, error |-> error, stats |-> NoStats, threw |-> TRUE]

FailureRethrown(d, rules, structure, error) ==
    [disk |-> d, ig |-> rules, structure |-> structure, result |-> Thrown(error)]

\* the catch block: { success: false, error: errorMessage }
Failure(d, rules, structure, error) ==
    [disk |-> d, ig |-> rules, structure |-> structure,
     result |-> Returned(FALSE, error, NoStats)]

Success(d, rules, structure, stats) ==
    [disk |-> d, ig |-> rules, structure |-> structure,
     result |-> Returned(TRUE, "", stats)]

\* the loop over the file entries: each sidecar is written under the name
\* generated from the entry's path and contentIndex; when the read throws the
\* catch writes an empty sidecar and the loop goes on
RECURSIVE writeContentsStopAtUnreadable(_, _, _, _)
writeContentsStopAtUnreadable(d, folderPath, contentDir, files) ==
    IF files = <<>> \/ ~readOk(d, join(folderPath, Head(files).path)) THEN d
    ELSE
      LET file == Head(files)
          contentPath == Append(contentDir,
                                generateContentFilename(file.path, file.contentIndex))
      IN writeContentsStopAtUnreadable(
            writeFile(d, contentPath, RawFile(d[join(folderPath, file.path)].bytes)),
            folderPath, contentDir, Tail(files))

RECURSIVE writeContents(_, _, _, _)
writeContents(d, folderPath, contentDir, files) ==
    IF files = <<>> THEN d
    ELSE
      LET file == Head(files)
          filePath == join(folderPath, file.path)
          contentPath == Append(contentDir,
                                generateContentFilename(file.path, file.contentIndex))
          buffer == IF readOk(d, filePath) THEN d[filePath].bytes ELSE <<>>
      IN IF ~writeOk(d, contentPath) THEN d
         ELSE writeContents(writeFile(d, contentPath, RawFile(buffer)),
                            folderPath, contentDir, Tail(files))

\* the error that loop throws, "" when it ends: a write that throws sends
\* control to the catch of the iteration, whose own write of the empty
\* sidecar throws again, and that one nothing in the loop catches
writeContentsError(files) ==
    IF \E i \in DOMAIN files :
          Len(generateContentFilename(files[i].path, files[i].contentIndex)) > NameMax
    THEN "ENAMETOOLONG"
    ELSE ""

\* the manifest entry of a walked item: contentIndex is dropped, contentFile kept
manifestItem(item) ==
    IF item.type = "file"
    THEN [type |-> "file", path |-> item.path, name |-> item.name, size |-> item.size,
          contentFile |-> generateContentFilename(item.path, item.contentIndex)]
    ELSE item

\* folderToText from loadGitignore on, for a source that passed the two tests
snapFolder(d, rules0, hidden, ord, now, folderPath, outputPath) ==
      LET rules == loadGitignore(d, rules0, folderPath)
          structure == readFolderStructure(d, rules, hidden, ord, folderPath, folderPath)
          metadata == [timestamp |-> now,
                       sourceFolder |-> basename(folderPath),
                       totalFiles |-> countFiles(structure),
                       totalDirectories |-> countDirectories(structure),
                       version |-> "3.0"]
          outputDir == dirname(outputPath)
          snapDir == replaceSnapSuffix(outputPath)
          contentDir == Append(snapDir, N_content)
          metadataPath == Append(snapDir, N_metadata_json)
          d1 == IF existsSync(d, outputDir) THEN d ELSE mkdirRecursive(d, outputDir)
          d2 == IF existsSync(d1, snapDir) THEN rmSync(d1, snapDir) ELSE d1
          d3 == mkdirRecursive(d2, snapDir)
          d4 == mkdirRecursive(d3, contentDir)
          d5 == writeContents(d4, folderPath, contentDir, SelectSeq(structure, IsFileItem))
          d6 == writeFile(d5, metadataPath,
                    TextFile("json", [metadata |-> metadata,
                                      structure |-> [i \in 1..Len(structure) |->
                                                        manifestItem(structure[i])]]))
          snapReference == [type |-> "folder-snap-v3",
                            snapDirectory |-> basename(snapDir),
                            metadata |-> metadata]
      IN IF loadGitignoreError(d, folderPath) # ""
         THEN Failure(d, rules, <<>>, loadGitignoreError(d, folderPath))
         ELSE IF walkError(d, folderPath, structure) # ""
         THEN Failure(d, rules, <<>>, walkError(d, folderPath, structure))
         ELSE IF ~existsSync(d, outputDir) /\ ~mkdirOk(d, outputDir)
         THEN Failure(d, rules, structure, "ENOTDIR")
         ELSE IF ~mkdirOk(d2, snapDir)
         THEN Failure(d2, rules, structure, "ENOTDIR")
         ELSE IF writeContentsError(SelectSeq(structure, IsFileItem)) # ""
         THEN Failure(d5, rules, structure,
                      writeContentsError(SelectSeq(structure, IsFileItem)))
         ELSE IF ~writeOk(d6, outputPath)
         THEN Failure(d6, rules, structure, "EISDIR")
         ELSE Success(writeFile(d6, outputPath, TextFile("json", snapReference)),
                      rules, structure, metadata)

folderToTextPrepareFirst(d, rules0, hidden, ord, now, folderPath, outputPath) ==
    LET snapDir == replaceSnapSuffix(outputPath)
        d0 == mkdirRecursive(rmSync(d, snapDir), snapDir)
    IN IF ~existsSync(d, folderPath)
       THEN Failure(d0, rules0, <<>>, "Source folder does not exist")
       ELSE IF ~isDirectory(d, folderPath)
       THEN Failure(d0, rules0, <<>>, "Source path is not a directory")
       ELSE snapFolder(d, rules0, hidden, ord, now, folderPath, outputPath)

folderToText(d, rules0, hidden, ord, now, folderPath, outputPath) ==
    IF ~existsSync(d, folderPath)
    THEN Failure(d, rules0, <<>>, "Source folder does not exist")
    ELSE IF ~isDirectory(d, folderPath)
    THEN Failure(d, rules0, <<>>, "Source path is not a directory")
    ELSE snapFolder(d, rules0, hidden, ord, now, folderPath, outputPath)

\* ------------------------------------------------------------------ stats
getFolderStatsUnfiltered(d, rules0, hidden, ord, folderPath) ==
    LET structure == readFolderStructure(d, <<>>, TRUE, ord, folderPath, folderPath)
        files == SelectSeq(structure, IsFileItem)
    IN [ig |-> rules0, structure |-> structure,
        result |-> Returned(TRUE, "",
                            [files |-> Len(files),
                             directories |-> countDirectories(structure),
                             totalSize |-> SumSizes(files)])]

\* no try block: the Error of the first test and whatever loadGitignore or
\* the walker throw leave the method
getFolderStats(d, rules0, hidden, ord, folderPath) ==
    LET rules == loadGitignore(d, rules0, folderPath)
        structure == readFolderStructure(d, rules, hidden, ord, folderPath, folderPath)
        files == SelectSeq(structure, IsFileItem)
    IN IF ~existsSync(d, folderPath)
       THEN [ig |-> rules0, structure |-> <<>>, result |-> Thrown("Folder does not exist")]
       ELSE IF loadGitignoreError(d, folderPath) # ""
       THEN [ig |-> rules, structure |-> <<>>,
             result |-> Thrown(loadGitignoreError(d, folderPath))]
       ELSE IF walkError(d, folderPath, structure) # ""
       THEN [ig |-> rules, structure |-> <<>>,
             result |-> Thrown(walkError(d, folderPath, structure))]
       ELSE [ig |-> rules, structure |-> structure,
             result |-> Returned(TRUE, "",
                                 [files |-> Len(files),
                                  directories |-> countDirectories(structure),
                                  totalSize |-> SumSizes(files)])]

\* ------------------------------------------------------------ source trees
SrcFolders == {<<N_A>>, <<N_B>>}

Node(path, node) == [path |-> path, node |-> node]

\* the contents of a rule file: "c", then "!x.log"
RulesText1 == <<"c", "\n", "!", "x", ".", "l", "o", "g">>

\* "!.h", then "d/"
RulesText2 == <<"!", ".", "h", "\n", "d", "/">>

WalkCandidates ==
    { Node(<<N_A, N_node_modules>>, Directory),
      Node(<<N_A, N_node_modules, N_c>>, RawFile(<<"A">>)),
      Node(<<N_A, N_log>>, RawFile(<<"A", "B">>)),
      Node(<<N_A, N_hid>>, RawFile(<<"B">>)),
      Node(<<N_A, N_c>>, RawFile(<<"A">>)),
      Node(<<N_A, N_d>>, Directory),
      Node(<<N_A, N_d, N_e>>, RawFile(<<"B", "B">>)),
      Node(<<N_A, N_d, N_a>>, Directory),
      Node(<<N_A, N_d, N_a, N_e>>, RawFile(<<"A", "B", "A">>)),
      Node(<<N_A, N_gitignore>>, RawFile(RulesText1)),
      Node(<<N_A, N_gitignore>>, RawFile(RulesText2)),
      Node(<<N_B, N_c>>, RawFile(<<"B">>)),
      Node(<<N_B, N_log>>, RawFile(<<"A">>)) }

WellFormed(S) ==
    \A c \in S :
        /\ Len(c.path) > 2 =>
              \E p \in S : p.path = dirname(c.path) /\ p.node.type = "directory"
        /\ \A c2 \in S : c2.path = c.path => c2 = c

Trees(candidates) ==
    {S \in SUBSET candidates : Cardinality(S) <= MaxEntries /\ WellFormed(S)}

DiskOf(S) ==
    [p \in SrcFolders \cup {c.path : c \in S} |->
        IF p \in SrcFolders THEN Directory ELSE (CHOOSE c \in S : c.path = p).node]

NameOrder ==
    <<N_a, N_a_b, N_b_c, N_c, N_d, N_e, N_hid, N_gitignore, N_node_modules, N_log>>

Reverse(s) == [i \in 1..Len(s) |-> s[Len(s) + 1 - i]]

Orders == {NameOrder, Reverse(NameOrder)}

NoCall == [op |-> "none", folder |-> <<>>, path |-> <<>>, structure |-> <<>>,
           result |-> Returned(FALSE, "", NoStats), before |-> <<>>]

InitWalk ==
    /\ \E S \in Trees(WalkCandidates) : disk = DiskOf(S)
    /\ ig = <<>>
    /\ includeHidden \in BOOLEAN
    /\ order \in Orders
    /\ last = NoCall
    /\ nops = 0

\* ---------------------------------------------------------------- actions
\* the call made before this one on the same instance, and what it returned
PrevCall == [op |-> last.op, folder |-> last.folder, result |-> last.result]

Pack(folderPath, outputPath) ==
    /\ nops < MaxOps
    /\ LET r == folderToText(disk, ig, includeHidden, order, nops, folderPath, outputPath)
       IN /\ disk' = r.disk
          /\ ig' = r.ig
          /\ last' = [op |-> "pack", folder |-> folderPath, path |-> outputPath,
                      structure |-> r.structure, result |-> r.result, before |-> disk,
                      prev |-> PrevCall]
    /\ nops' = nops + 1
    /\ UNCHANGED <<includeHidden, order>>

Stats(folderPath) ==
    /\ nops < MaxOps
    /\ LET r == getFolderStats(disk, ig, includeHidden, order, folderPath)
       IN /\ ig' = r.ig
          /\ last' = [op |-> "stats", folder |-> folderPath, path |-> <<>>,
                      structure |-> r.structure, result |-> r.result, before |-> disk,
                      prev |-> PrevCall]
    /\ nops' = nops + 1
    /\ UNCHANGED <<disk, includeHidden, order>>

NextWalk ==
    \/ \E f \in SrcFolders : Pack(f, <<N_out_snap>>)
    \/ \E f \in SrcFolders : Stats(f)

SpecWalk == InitWalk /\ [][NextWalk]_vars

\* --------------------------------------------------------- string codecs
\* byte tokens and their values
ByteAlphabet == <<"NUL", "A", "B", "x80">>

ByteCode == <<0, 65, 66, 128>>

ByteVal(b) == ByteCode[CHOOSE i \in 1..Len(ByteAlphabet) : ByteAlphabet[i] = b]

ByteOf(v) == ByteAlphabet[CHOOSE i \in 1..Len(ByteCode) : ByteCode[i] = v]

\* buffer.toString('utf8'): a byte that is not valid UTF-8 decodes to U+FFFD
utf8Decode(bytes) ==
    [i \in 1..Len(bytes) |-> IF bytes[i] = "x80" THEN "uFFFD" ELSE bytes[i]]

\* Buffer.from(text, 'utf8'): U+FFFD encodes to three bytes
RECURSIVE utf8Encode(_)
utf8Encode(text) ==
    IF text = <<>> THEN <<>>
    ELSE (IF Head(text) = "uFFFD" THEN <<"xEF", "xBF", "xBD">> ELSE <<Head(text)>>)
            \o utf8Encode(Tail(text))

Base64Chars ==
    <<"A", "B", "C", "D", "E", "F", "G", "H", "I", "J", "K", "L", "M",
      "N", "O", "P", "Q", "R", "S", "T", "U", "V", "W", "X", "Y", "Z",
      "a", "b", "c", "d", "e", "f", "g", "h", "i", "j", "k", "l", "m",
      "n", "o", "p", "q", "r", "s", "t", "u", "v", "w", "x", "y", "z",
      "0", "1", "2", "3", "4", "5", "6", "7", "8", "9", "+", "/">>

Sextet(c) == (CHOOSE i \in 1..Len(Base64Chars) : Base64Chars[i] = c) - 1

\* buffer.toString('base64')
RECURSIVE base64Encode(_)
base64Encode(bytes) ==
    IF bytes = <<>> THEN <<>>
    ELSE
      LET k == IF Len(bytes) >= 3 THEN 3 ELSE Len(bytes)
          v(i) == IF i <= k THEN ByteVal(bytes[i]) ELSE 0
          n == v(1) * 65536 + v(2) * 256 + v(3)
          c(i) == Base64Chars[((n \div (64 ^ (4 - i))) % 64) + 1]
      IN <<c(1), c(2), IF k >= 2 THEN c(3) ELSE "=", IF k = 3 THEN c(4) ELSE "=">>
            \o base64Encode(SubSeq(bytes, k + 1, Len(bytes)))

\* Buffer.from(text, 'base64')
RECURSIVE base64Decode(_)
base64Decode(text) ==
    IF Len(text) < 4 THEN <<>>
    ELSE
      LET s(i) == IF text[i] = "=" THEN 0 ELSE Sextet(text[i])
          n == s(1) * 262144 + s(2) * 4096 + s(3) * 64 + s(4)
          k == IF text[3] = "=" THEN 1 ELSE IF text[4] = "=" THEN 2 ELSE 3
          b(i) == ByteOf((n \div (256 ^ (3 - i))) % 256)
      IN SubSeq(<<b(1), b(2), b(3)>>, 1, k) \o base64Decode(SubSeq(text, 5, Len(text)))

\* ---------------------------------------------------------- legacy writer
\* The first version of the class (src/src/index.ts from line 761): its
\* walker reads each file as utf8 text into the entry, and its writer wraps
\* the JSON between the two markers after a comment prologue.  It runs in an
\* instance of its own, so it starts from an empty rule set.
RECURSIVE readFolderStructureLegacy(_, _, _, _, _, _)
RECURSIVE walkItemsLegacy(_, _, _, _, _, _, _, _)
walkItemsLegacy(d, rules, hidden, ord, folderPath, basePath, items, structure) ==
    IF items = <<>> THEN structure
    ELSE
      LET item == Head(items)
          itemPath == Append(folderPath, item)
          relativePath == relative(basePath, itemPath)
          pushed ==
            IF shouldIgnore(rules, hidden, relativePath) THEN structure
            ELSE IF d[itemPath].type = "directory"
            THEN pushDirectory(structure,
                    [type |-> "directory", path |-> relativePath, name |-> item],
                    readFolderStructureLegacy(d, rules, hidden, ord, itemPath, basePath))
            ELSE Append(structure,
                    [type |-> "file", path |-> relativePath, name |-> item,
                     content |-> utf8Decode(d[itemPath].bytes),
                     size |-> Len(d[itemPath].bytes)])
      IN walkItemsLegacy(d, rules, hidden, ord, folderPath, basePath, Tail(items), pushed)

readFolderStructureLegacy(d, rules, hidden, ord, folderPath, basePath) ==
    walkItemsLegacy(d, rules, hidden, ord, folderPath, basePath,
                    readdirSync(d, folderPath, ord), <<>>)

folderToTextLegacy(d, hidden, ord, now, folderPath, outputPath) ==
    IF ~isDirectory(d, folderPath)
    THEN Failure(d, <<>>, <<>>, "ENOENT")
    ELSE
      LET rules == loadGitignore(d, <<>>, folderPath)
          structure == readFolderStructureLegacy(d, rules, hidden, ord, folderPath, folderPath)
          metadata == [timestamp |-> now,
                       sourceFolder |-> basename(folderPath),
                       totalFiles |-> countFiles(structure),
                       totalDirectories |-> countDirectories(structure)]
          output == [metadata |-> metadata, structure |-> structure]
      IN IF loadGitignoreError(d, folderPath) # ""
         THEN Failure(d, rules, <<>>, loadGitignoreError(d, folderPath))
         ELSE IF walkError(d, folderPath, structure) # ""
         THEN Failure(d, rules, <<>>, walkError(d, folderPath, structure))
         ELSE IF \E i \in DOMAIN structure :
                    /\ IsFileItem(structure[i])
                    /\ ~readOk(d, join(folderPath, structure[i].path))
         THEN Failure(d, rules, <<>>, "EACCES")
         ELSE IF ~writeOk(d, outputPath)
         THEN Failure(d, rules, structure, "EISDIR")
         ELSE Success(writeFile(d, outputPath, TextFile("marked", output)),
                      rules, structure, metadata)

\* -------------------------------------------------------------- v2 writer
\* The second version (src/unnamed/part_001): one JSON file, the content of
\* each file embedded as utf8 text or, when the bytes hold a NUL, as base64.
DefaultIgnoresV2 == <<
    <<"n", "o", "d", "e", "_", "m", "o", "d", "u", "l", "e", "s", "/">>,
    <<"v", "e", "n", "v", "/">>,
    <<"*", ".", "l", "o", "g">>,
    <<".", "D", "S", "_", "S", "t", "o", "r", "e">>,
    <<"T", "h", "u", "m", "b", "s", ".", "d", "b">> >>

loadGitignoreV2(d, rules, folderPath) ==
    LET gitignorePath == join(folderPath, <<N_gitignore>>)
        withDefaults == rules \o [i \in 1..Len(DefaultIgnoresV2) |-> ParseRule(DefaultIgnoresV2[i])]
    IN IF existsSync(d, gitignorePath) /\ readOk(d, gitignorePath)
       THEN withDefaults \o ParseRules(d[gitignorePath].bytes)
       ELSE withDefaults

includesNulFirst(buffer) == Len(buffer) > 0 /\ buffer[1] = "NUL"

\* buffer.includes(0)
includesNul(buffer) == \E i \in 1..Len(buffer) : buffer[i] = "NUL"

embedContent(d, folderPath, item) ==
    IF item.type = "file"
    THEN LET filePath == join(folderPath, item.path)
             buffer == IF readOk(d, filePath) THEN d[filePath].bytes ELSE <<>>
             isBinary == includesNul(buffer)
         IN [type |-> "file", path |-> item.path, name |-> item.name, size |-> item.size,
             content |-> IF isBinary THEN base64Encode(buffer) ELSE utf8Decode(buffer),
             encoding |-> IF isBinary THEN "base64" ELSE "utf8"]
    ELSE item

folderToTextV2(d, hidden, ord, now, folderPath, outputPath) ==
    IF ~existsSync(d, folderPath)
    THEN Failure(d, <<>>, <<>>, "Source folder does not exist")
    ELSE IF ~isDirectory(d, folderPath)
    THEN Failure(d, <<>>, <<>>, "Source path is not a directory")
    ELSE
      LET rules == loadGitignoreV2(d, <<>>, folderPath)
          structure == readFolderStructure(d, rules, hidden, ord, folderPath, folderPath)
          metadata == [timestamp |-> now,
                       sourceFolder |-> basename(folderPath),
                       totalFiles |-> countFiles(structure),
                       totalDirectories |-> countDirectories(structure),
                       version |-> "3.0"]
          outputDir == dirname(outputPath)
          d1 == IF existsSync(d, outputDir) THEN d ELSE mkdirRecursive(d, outputDir)
          snapData == [metadata |-> metadata,
                       structure |-> [i \in 1..Len(structure) |->
                                         embedContent(d, folderPath, structure[i])]]
      IN IF \E q \in {join(folderPath, <<N_gitignore>>)} : existsSync(d, q) /\ ~readOk(d, q)
         THEN Failure(d, rules, <<>>, "EACCES")
         ELSE IF walkError(d, folderPath, structure) # ""
         THEN Failure(d, rules, <<>>, walkError(d, folderPath, structure))
         ELSE IF ~existsSync(d, outputDir) /\ ~mkdirOk(d, outputDir)
         THEN Failure(d, rules, structure, "ENOTDIR")
         ELSE IF ~writeOk(d1, outputPath)
         THEN Failure(d1, rules, structure, "EISDIR")
         ELSE Success(writeFile(d1, outputPath, TextFile("json", snapData)),
                      rules, structure, metadata)

\* ----------------------------------------------------------------- reader
HasField(doc, f) == f \in DOMAIN doc

parsesAlways(node) == TRUE

\* JSON.parse succeeds on the text JSON.stringify wrote, and throws on a
\* text that starts with the comment prologue or on bytes that are no JSON
parsesAsJSON(node) == node.fmt = "json"

\* textContent.indexOf(marker) # -1 for both markers
hasMarkers(node) == node.fmt = "marked"

\* errorCount is the tally the reader prints ("N files could not be
\* restored"); the SnapResult it returns has no field for it
ReadFailureAsSuccess(d, error) ==
    [disk |-> d, result |-> Returned(TRUE, "", NoStats), errorCount |-> 0]

ReadFailure(d, error) ==
    [disk |-> d, result |-> Returned(FALSE, error, NoStats), errorCount |-> 0]

ReadSuccess(d, stats, errorCount) ==
    [disk |-> d, result |-> Returned(TRUE, "", stats), errorCount |-> errorCount]

\* the loop "Create directories first": a failure is caught and skipped
RECURSIVE restoreDirectories(_, _, _)
restoreDirectories(d, outputFolder, directories) ==
    IF directories = <<>> THEN d
    ELSE
      LET dirPath == join(outputFolder, Head(directories).path)
      IN restoreDirectories(IF mkdirOk(d, dirPath) THEN mkdirRecursive(d, dirPath) ELSE d,
                            outputFolder, Tail(directories))

\* one file of either reader: the containing directory is ensured, then the
\* buffer is written; a throw of either step is caught and the file skipped
restoreOneFile(d, filePath, buffer) ==
    LET fileDir == dirname(filePath)
        d1 == IF existsSync(d, fileDir) THEN d ELSE mkdirRecursive(d, fileDir)
    IN IF ~existsSync(d, fileDir) /\ ~mkdirOk(d, fileDir) THEN d
       ELSE IF ~writeOk(d1, filePath) THEN d1
       ELSE writeFile(d1, filePath, RawFile(buffer))

\* the catch of that iteration runs (errorCount++)
restoreThrows(d, filePath) ==
    LET fileDir == dirname(filePath)
        d1 == IF existsSync(d, fileDir) THEN d ELSE mkdirRecursive(d, fileDir)
    IN \/ ~existsSync(d, fileDir) /\ ~mkdirOk(d, fileDir)
       \/ ~writeOk(d1, filePath)

\* the sidecar named by the entry, or nothing when it is absent
sidecarBuffer(d, snapDir, file) ==
    IF HasField(file, "contentFile") /\ file.contentFile # <<>>
          /\ existsSync(d, join(snapDir, <<N_content, file.contentFile>>))
    THEN d[join(snapDir, <<N_content, file.contentFile>>)].bytes
    ELSE <<>>

RECURSIVE restoreFilesV3StopAtFailure(_, _, _, _)
restoreFilesV3StopAtFailure(d, outputFolder, snapDir, files) ==
    IF files = <<>> \/ restoreThrows(d, join(outputFolder, Head(files).path)) THEN d
    ELSE restoreFilesV3StopAtFailure(
            restoreOneFile(d, join(outputFolder, Head(files).path),
                           sidecarBuffer(d, snapDir, Head(files))),
            outputFolder, snapDir, Tail(files))

RECURSIVE restoreFilesV3(_, _, _, _)
restoreFilesV3(d, outputFolder, snapDir, files) ==
    IF files = <<>> THEN d
    ELSE restoreFilesV3(
            restoreOneFile(d, join(outputFolder, Head(files).path),
                           sidecarBuffer(d, snapDir, Head(files))),
            outputFolder, snapDir, Tail(files))

RECURSIVE errorCountV3(_, _, _, _)
errorCountV3(d, outputFolder, snapDir, files) ==
    IF files = <<>> THEN 0
    ELSE (IF restoreThrows(d, join(outputFolder, Head(files).path)) THEN 1 ELSE 0)
         + errorCountV3(
              restoreOneFile(d, join(outputFolder, Head(files).path),
                             sidecarBuffer(d, snapDir, Head(files))),
              outputFolder, snapDir, Tail(files))

unpackV3Snap(d, snapFilePath, outputFolder, snapData) ==
    LET snapDir == join(dirname(snapFilePath), <<snapData.snapDirectory>>)
        metadataPath == Append(snapDir, N_metadata_json)
    IN IF ~existsSync(d, snapDir) THEN ReadFailure(d, "Snap directory not found")
       ELSE IF ~existsSync(d, metadataPath) THEN ReadFailure(d, "Metadata file not found")
       ELSE IF d[metadataPath].type = "directory" THEN ReadFailure(d, "EISDIR")
       ELSE IF ~parsesAsJSON(d[metadataPath]) THEN ReadFailure(d, "Unexpected token")
       ELSE
         LET data == d[metadataPath].doc
             d1 == IF existsSync(d, outputFolder) THEN d ELSE mkdirRecursive(d, outputFolder)
             d2 == restoreDirectories(d1, outputFolder, SelectSeq(data.structure, IsDirItem))
             d3 == restoreFilesV3(d2, outputFolder, snapDir,
                                  SelectSeq(data.structure, IsFileItem))
         IN IF ~existsSync(d, outputFolder) /\ ~mkdirOk(d, outputFolder)
            THEN ReadFailure(d, "ENOTDIR")
            ELSE IF ~HasField(data, "structure")
            THEN ReadFailure(d1, "Cannot read properties of undefined")
            ELSE IF ~HasField(data, "metadata")
            THEN ReadFailure(d3, "Cannot read properties of undefined")
            ELSE ReadSuccess(d3, data.metadata,
                             errorCountV3(d2, outputFolder, snapDir,
                                          SelectSeq(data.structure, IsFileItem)))

\* file.content decoded by file.encoding (utf8 when absent), or nothing
inlineBuffer(file) ==
    IF HasField(file, "content") /\ Len(file.content) > 0
    THEN IF HasField(file, "encoding") /\ file.encoding = "base64"
         THEN base64Decode(file.content)
         ELSE utf8Encode(file.content)
    ELSE <<>>

RECURSIVE restoreFilesLegacy(_, _, _)
restoreFilesLegacy(d, outputFolder, files) ==
    IF files = <<>> THEN d
    ELSE restoreFilesLegacy(
            restoreOneFile(d, join(outputFolder, Head(files).path),
                           inlineBuffer(Head(files))),
            outputFolder, Tail(files))

RECURSIVE errorCountLegacy(_, _, _)
errorCountLegacy(d, outputFolder, files) ==
    IF files = <<>> THEN 0
    ELSE (IF restoreThrows(d, join(outputFolder, Head(files).path)) THEN 1 ELSE 0)
         + errorCountLegacy(
              restoreOneFile(d, join(outputFolder, Head(files).path),
                             inlineBuffer(Head(files))),
              outputFolder, Tail(files))

unpackLegacySnap(d, snapFilePath, outputFolder) ==
    IF ~hasMarkers(d[snapFilePath])
    THEN ReadFailure(d, "Invalid legacy snap file format. Missing structure markers.")
    ELSE
      LET data == d[snapFilePath].doc
          d1 == IF existsSync(d, outputFolder) THEN d ELSE mkdirRecursive(d, outputFolder)
          d2 == restoreDirectories(d1, outputFolder, SelectSeq(data.structure, IsDirItem))
          d3 == restoreFilesLegacy(d2, outputFolder, SelectSeq(data.structure, IsFileItem))
      IN IF ~HasField(data, "metadata") \/ ~HasField(data, "structure")
         THEN ReadFailure(d, "Invalid legacy snap file structure.")
         ELSE IF ~existsSync(d, outputFolder) /\ ~mkdirOk(d, outputFolder)
         THEN ReadFailure(d, "ENOTDIR")
         ELSE ReadSuccess(d3, data.metadata,
                          errorCountLegacy(d2, outputFolder,
                                           SelectSeq(data.structure, IsFileItem)))

textToFolder(d, snapFilePath, outputFolder) ==
    IF ~existsSync(d, snapFilePath) THEN ReadFailure(d, "Snap file does not exist")
    ELSE IF isDirectory(d, snapFilePath) THEN ReadFailure(d, "EISDIR")
    ELSE IF ~parsesAsJSON(d[snapFilePath]) THEN ReadFailure(d, "Invalid snap file format")
    ELSE
      LET snapData == d[snapFilePath].doc
      IN IF HasField(snapData, "type") /\ snapData.type = "folder-snap-v3"
         THEN unpackV3Snap(d, snapFilePath, outputFolder, snapData)
         ELSE unpackLegacySnap(d, snapFilePath, outputFolder)

\* ------------------------------------------- the fs calls of an unpack
\* one call of fs.mkdirSync or fs.writeFileSync made by a reader, in the
\* order the reader makes them; ok tells whether it returned or threw
FsCall(call, path, ok) == [call |-> call, path |-> path, ok |-> ok]

\* the loop "Create directories first"
RECURSIVE directoryCalls(_, _, _)
directoryCalls(d, outputFolder, directories) ==
    IF directories = <<>> THEN <<>>
    ELSE
      LET dirPath == join(outputFolder, Head(directories).path)
      IN <<FsCall("mkdir", dirPath, mkdirOk(d, dirPath))>>
            \o directoryCalls(IF mkdirOk(d, dirPath) THEN mkdirRecursive(d, dirPath) ELSE d,
                              outputFolder, Tail(directories))

fileCallsWriteOnly(d, outputFolder, files) ==
    [i \in 1..Len(files) |->
        FsCall("write", join(outputFolder, files[i].path),
               writeOk(d, join(outputFolder, files[i].path)))]

\* the loop "Create files": the containing directory is made when it is
\* not there, and the write follows unless that threw
RECURSIVE fileCalls(_, _, _)
fileCalls(d, outputFolder, files) ==
    IF files = <<>> THEN <<>>
    ELSE
      LET filePath == join(outputFolder, Head(files).path)
          fileDir == dirname(filePath)
          absent == ~existsSync(d, fileDir)
          d1 == IF absent /\ mkdirOk(d, fileDir) THEN mkdirRecursive(d, fileDir) ELSE d
      IN (IF absent THEN <<FsCall("mkdir", fileDir, mkdirOk(d, fileDir))>> ELSE <<>>)
            \o (IF absent /\ ~mkdirOk(d, fileDir) THEN <<>>
                ELSE <<FsCall("write", filePath, writeOk(d1, filePath))>>)
            \o fileCalls(restoreOneFile(d, filePath, <<>>), outputFolder, Tail(files))

\* the calls from "Create output folder if it doesn't exist" on, for the
\* document both readers restore from
restoreCalls(d, outputFolder, data) ==
    LET absent == ~existsSync(d, outputFolder)
        d1 == IF absent /\ mkdirOk(d, outputFolder) THEN mkdirRecursive(d, outputFolder) ELSE d
        directories == SelectSeq(data.structure, IsDirItem)
        d2 == restoreDirectories(d1, outputFolder, directories)
    IN (IF absent THEN <<FsCall("mkdir", outputFolder, mkdirOk(d, outputFolder))>> ELSE <<>>)
          \o (IF (absent /\ ~mkdirOk(d, outputFolder)) \/ ~HasField(data, "structure")
              THEN <<>>
              ELSE directoryCalls(d1, outputFolder, directories)
                      \o fileCalls(d2, outputFolder, SelectSeq(data.structure, IsFileItem)))

\* the calls textToFolder makes on the output side
textToFolderCalls(d, snapFilePath, outputFolder) ==
    IF ~existsSync(d, snapFilePath) \/ isDirectory(d, snapFilePath)
    THEN <<>>
    ELSE IF ~parsesAsJSON(d[snapFilePath]) THEN <<>>
    ELSE
      LET snapData == d[snapFilePath].doc
      IN IF HasField(snapData, "type") /\ snapData.type = "folder-snap-v3"
         THEN
           LET snapDir == join(dirname(snapFilePath), <<snapData.snapDirectory>>)
               metadataPath == Append(snapDir, N_metadata_json)
           IN IF ~existsSync(d, snapDir) \/ ~existsSync(d, metadataPath) THEN <<>>
              ELSE IF d[metadataPath].type = "directory" \/ ~parsesAsJSON(d[metadataPath])
              THEN <<>>
              ELSE restoreCalls(d, outputFolder, d[metadataPath].doc)
         ELSE IF ~hasMarkers(d[snapFilePath]) THEN <<>>
         ELSE IF ~HasField(snapData, "metadata") \/ ~HasField(snapData, "structure") THEN <<>>
         ELSE restoreCalls(d, outputFolder, snapData)

\* ------------------------------------------------- the full specification
\* "C" here is a file holding a NUL byte
RoundCandidates ==
    { Node(<<N_A, N_a>>, Directory),
      Node(<<N_A, N_a, N_b_c>>, RawFile(<<"A">>)),
      Node(<<N_A, N_a_b>>, Directory),
      Node(<<N_A, N_a_b, N_c>>, RawFile(<<"B">>)),
      Node(<<N_A, N_a_b, N_c>>, RawFile(<<"A">>)),
      Node(<<N_A, N_c>>, RawFile(<<"NUL", "B">>)),
      Node(<<N_A, N_d>>, Directory),
      Node(<<N_A, N_e>>, RawFile(<<>>)),
      Node(<<N_A, N_e>>, RawFile(<<"x80">>)) }

OutputPaths == {<<N_out_snap>>, <<N_out_txt>>}

ArchivePaths == {<<N_out_snap>>, <<N_out_txt>>, <<N_leg_snap>>, <<N_v2_snap>>}

Init ==
    /\ \E S \in Trees(RoundCandidates) : disk = DiskOf(S)
    /\ ig = <<>>
    /\ includeHidden = FALSE
    /\ order \in Orders
    /\ last = NoCall
    /\ nops = 0

PackLegacy(folderPath, outputPath) ==
    /\ nops < MaxOps
    /\ LET r == folderToTextLegacy(disk, includeHidden, order, nops, folderPath, outputPath)
       IN /\ disk' = r.disk
          /\ last' = [op |-> "packLegacy", folder |-> folderPath, path |-> outputPath,
                      structure |-> r.structure, result |-> r.result, before |-> disk]
    /\ nops' = nops + 1
    /\ UNCHANGED <<ig, includeHidden, order>>

PackV2(folderPath, outputPath) ==
    /\ nops < MaxOps
    /\ LET r == folderToTextV2(disk, includeHidden, order, nops, folderPath, outputPath)
       IN /\ disk' = r.disk
          /\ last' = [op |-> "packV2", folder |-> folderPath, path |-> outputPath,
                      structure |-> r.structure, result |-> r.result, before |-> disk]
    /\ nops' = nops + 1
    /\ UNCHANGED <<ig, includeHidden, order>>

Unpack(snapFilePath, outputFolder) ==
    /\ nops < MaxOps
    /\ LET r == textToFolder(disk, snapFilePath, outputFolder)
       IN /\ disk' = r.disk
          /\ last' = [op |-> "unpack", folder |-> outputFolder, path |-> snapFilePath,
                      structure |-> <<>>, result |-> r.result, before |-> disk,
                      errorCount |-> r.errorCount,
                      fresh |-> ~existsSync(disk, outputFolder),
                      calls |-> textToFolderCalls(disk, snapFilePath, outputFolder)]
    /\ nops' = nops + 1
    /\ UNCHANGED <<ig, includeHidden, order>>

Next ==
    \/ \E out \in OutputPaths : Pack(<<N_A>>, out)
    \/ PackLegacy(<<N_A>>, <<N_leg_snap>>)
    \/ PackV2(<<N_A>>, <<N_v2_snap>>)
    \/ \E archive \in ArchivePaths : Unpack(archive, <<N_R>>)
    \/ Stats(<<N_A>>)

Spec == Init /\ [][Next]_vars

\* ------------------------------------------- the specification with faults
\* Source trees with a file that cannot be read, a directory that cannot be
\* listed and a rule file that cannot be read; an output folder that is
\* absent, is a file, or already holds entries in the way of the restore;
\* and an archive that was damaged after it was written.
FaultCandidates ==
    { Node(<<N_A, N_c>>, RawFile(<<"A">>)),
      Node(<<N_A, N_c>>, LockedFile(<<"A">>)),
      Node(<<N_A, N_d>>, Directory),
      Node(<<N_A, N_d>>, LockedDirectory),
      Node(<<N_A, N_d, N_e>>, RawFile(<<"B">>)),
      Node(<<N_A, N_e>>, RawFile(<<"B", "A">>)),
      Node(<<N_A, N_gitignore>>, LockedFile(RulesText1)),
      Node(<<N_R>>, Directory),
      Node(<<N_R>>, RawFile(<<"A">>)),
      Node(<<N_R, N_c>>, Directory),
      Node(<<N_R, N_d>>, RawFile(<<"A">>)) }

WellFormedFault(S) ==
    /\ WellFormed(S)
    /\ \A c \in S : (Len(c.path) = 2 /\ c.path[1] = N_R) => Node(<<N_R>>, Directory) \in S

FaultDiskOf(S) ==
    [p \in {<<N_A>>} \cup {c.path : c \in S} |->
        IF p = <<N_A>> THEN Directory ELSE (CHOOSE c \in S : c.path = p).node]

\* a folder, a path that is a file or is absent, and a folder that is absent
FaultSources == {<<N_A>>, <<N_A, N_c>>, <<N_B>>}

\* a reference file written by pack, and a file that is no archive
FaultArchives == {<<N_out_snap>>, <<N_A, N_e>>}

FaultTargets == {<<N_R>>, <<N_R, N_d>>}

DamageKinds == {"rmSnapDir", "rmManifest", "rmSidecar", "noMetadata", "noStructure",
                "noDirectories", "garbleManifest", "garbleReference",
                "parentEntry", "absoluteEntry"}

InitFault ==
    /\ \E S \in {T \in SUBSET FaultCandidates :
                    Cardinality(T) <= MaxEntries /\ WellFormedFault(T)} :
          disk = FaultDiskOf(S)
    /\ ig = <<>>
    /\ includeHidden = FALSE
    /\ order \in Orders
    /\ last = NoCall
    /\ nops = 0

\* the entries with the path of the first one led by the segment: ".." for
\* a path that points out of the folder it is joined to, the empty segment
\* for an absolute one
prefixed(structure, segment) ==
    [i \in DOMAIN structure |->
        IF i = 1 THEN [structure[i] EXCEPT !.path = <<segment>> \o @] ELSE structure[i]]

\* the archive a pack wrote, as the reader may find it later
damaged(d, kind, outputPath) ==
    LET snapDir == replaceSnapSuffix(outputPath)
        metadataPath == Append(snapDir, N_metadata_json)
        contentDir == Append(snapDir, N_content)
        sidecars == {q \in DOMAIN d : dirname(q) = contentDir}
        manifest == d[metadataPath].doc
    IN CASE kind = "rmSnapDir" -> rmSync(d, snapDir)
         [] kind = "rmManifest" -> rmSync(d, metadataPath)
         [] kind = "rmSidecar" ->
                IF sidecars = {} THEN d ELSE rmSync(d, CHOOSE q \in sidecars : TRUE)
         [] kind = "noMetadata" ->
                writeFile(d, metadataPath, TextFile("json", [structure |-> manifest.structure]))
         [] kind = "noStructure" ->
                writeFile(d, metadataPath, TextFile("json", [metadata |-> manifest.metadata]))
         [] kind = "noDirectories" ->
                writeFile(d, metadataPath,
                          TextFile("json", [metadata |-> manifest.metadata,
                                            structure |-> SelectSeq(manifest.structure,
                                                                    IsFileItem)]))
         [] kind = "parentEntry" ->
                writeFile(d, metadataPath,
                          TextFile("json", [metadata |-> manifest.metadata,
                                            structure |-> prefixed(manifest.structure, N_up)]))
         [] kind = "absoluteEntry" ->
                writeFile(d, metadataPath,
                          TextFile("json", [metadata |-> manifest.metadata,
                                            structure |-> prefixed(manifest.structure, <<>>)]))
         [] kind = "garbleManifest" -> writeFile(d, metadataPath, RawFile(<<"A">>))
         [] kind = "garbleReference" -> writeFile(d, outputPath, RawFile(<<"A">>))

Damage(kind) ==
    /\ last.op = "pack"
    /\ last.result.success
    /\ disk' = damaged(disk, kind, last.path)
    /\ last' = [op |-> "damage", folder |-> last.folder, path |-> last.path,
                structure |-> <<>>, result |-> Returned(FALSE, "", NoStats),
                before |-> disk, kind |-> kind]
    /\ UNCHANGED <<ig, includeHidden, order, nops>>

NextFault ==
    \/ \E f \in FaultSources : Pack(f, <<N_out_snap>>)
    \/ \E f \in FaultSources : Stats(f)
    \/ \E archive \in FaultArchives : \E out \in FaultTargets : Unpack(archive, out)
    \/ \E kind \in DamageKinds : Damage(kind)

SpecFault == InitFault /\ [][NextFault]_vars

\* ---------------------------------------------------------------- validate
Validation(valid, error, metadata) ==
    [valid |-> valid, error |-> error, metadata |-> metadata, threw |-> FALSE]

\* validateSnapFile reads the archive file and, for a v3 reference, the
\* manifest; it writes nothing.  A text that JSON.parse rejects is reported
\* at once, before the markers are looked for.
validateSnapFile(d, snapFilePath) ==
    IF ~existsSync(d, snapFilePath) THEN Validation(FALSE, "Snap file does not exist", NoStats)
    ELSE IF isDirectory(d, snapFilePath) THEN Validation(FALSE, "EISDIR", NoStats)
    ELSE IF ~readOk(d, snapFilePath) THEN Validation(FALSE, "EACCES", NoStats)
    ELSE IF ~parsesAsJSON(d[snapFilePath]) THEN Validation(FALSE, "Invalid JSON format", NoStats)
    ELSE
      LET snapData == d[snapFilePath].doc
      IN IF HasField(snapData, "type") /\ snapData.type = "folder-snap-v3"
         THEN
           LET snapDir == join(dirname(snapFilePath), <<snapData.snapDirectory>>)
               metadataPath == Append(snapDir, N_metadata_json)
           IN IF ~existsSync(d, snapDir) \/ ~existsSync(d, metadataPath)
              THEN Validation(FALSE, "Snap directory or metadata file not found", NoStats)
              ELSE IF isDirectory(d, metadataPath) THEN Validation(FALSE, "EISDIR", NoStats)
              ELSE IF ~parsesAsJSON(d[metadataPath])
              THEN Validation(FALSE, "Unexpected token", NoStats)
              ELSE Validation(TRUE, "",
                              IF HasField(d[metadataPath].doc, "metadata")
                              THEN d[metadataPath].doc.metadata ELSE NoStats)
         ELSE IF ~hasMarkers(d[snapFilePath])
         THEN Validation(FALSE, "Invalid snap file format. Missing structure markers.", NoStats)
         ELSE IF ~HasField(snapData, "metadata") \/ ~HasField(snapData, "structure")
         THEN Validation(FALSE, "Invalid snap file structure. Missing metadata or structure.",
                         NoStats)
         ELSE Validation(TRUE, "", snapData.metadata)

\* the version line of the validate command: metadata.version || 'legacy'
versionShown(validation) ==
    IF ~validation.valid \/ validation.metadata = NoStats THEN "none"
    ELSE IF HasField(validation.metadata, "version") THEN validation.metadata.version
    ELSE "legacy"

Validate(snapFilePath) ==
    /\ nops < MaxOps
    /\ LET validation == validateSnapFile(disk, snapFilePath)
       IN last' = [op |-> "validate", folder |-> <<>>, path |-> snapFilePath,
                   structure |-> <<>>, result |-> validation, before |-> disk,
                   version |-> versionShown(validation)]
    /\ nops' = nops + 1
    /\ UNCHANGED <<disk, ig, includeHidden, order>>

\* ---------------------------------------------------------------- upgrade
\* '.temp_upgrade_' + Date.now()
tempName(now) ==
    <<".", "t", "e", "m", "p", "_", "u", "p", "g", "r", "a", "d", "e", "_">> \o Decimal(now)

UnderV3DotSnap == <<"_", "v", "3", ".", "s", "n", "a", "p">>

\* legacySnapPath.replace(/\.snap$/, '_v3.snap')
upgradedPath(legacySnapPath) ==
    LET name == basename(legacySnapPath)
    IN IF EndsWith(name, DotSnap)
       THEN Append(dirname(legacySnapPath),
                   SubSeq(name, 1, Len(name) - Len(DotSnap)) \o UnderV3DotSnap)
       ELSE legacySnapPath

\* the clean-up of the temporary folder, on the way out and in the catch
upgradeCleanUp(d, tempDir) == rmSync(d, tempDir)

\* upgradeLegacySnap: the JSON between the markers is read, the file
\* entries (and only those) are written below a temporary folder beside the
\* archive, that folder is packed with folderToText, and it is removed
upgradeLegacySnap(d, rules0, hidden, ord, now, legacySnapPath, outputPath) ==
    IF ~readOk(d, legacySnapPath)
    THEN Failure(d, rules0, <<>>, "ENOENT")
    ELSE IF ~hasMarkers(d[legacySnapPath])
    THEN Failure(d, rules0, <<>>, "Invalid legacy snap file format. Missing structure markers.")
    ELSE
      LET data == d[legacySnapPath].doc
          tempDir == join(dirname(legacySnapPath), <<tempName(now)>>)
          d1 == mkdirRecursive(d, tempDir)
          files == SelectSeq(data.structure, IsFileItem)
          d2 == restoreFilesLegacy(d1, tempDir, files)
          r == folderToText(d2, rules0, hidden, ord, now, tempDir, outputPath)
      IN IF ~mkdirOk(d, tempDir)
         THEN Failure(d, rules0, <<>>, "ENOTDIR")
         ELSE IF ~HasField(data, "structure")
         THEN Failure(upgradeCleanUp(d1, tempDir), rules0, <<>>,
                      "Cannot read properties of undefined")
         ELSE IF errorCountLegacy(d1, tempDir, files) > 0
         THEN Failure(upgradeCleanUp(d2, tempDir), rules0, <<>>, "ENOTDIR")
         ELSE [r EXCEPT !.disk = upgradeCleanUp(@, tempDir)]

\* the upgrade command: the output file defaults to <name>_v3.snap
Upgrade(legacySnapPath) ==
    /\ nops < MaxOps
    /\ \E r \in {upgradeLegacySnap(disk, ig, includeHidden, order, nops, legacySnapPath,
                                    upgradedPath(legacySnapPath))} :
          /\ disk' = r.disk
          /\ ig' = r.ig
          /\ last' = [op |-> "upgrade", folder |-> <<tempName(nops)>>,
                      path |-> upgradedPath(legacySnapPath), source |-> legacySnapPath,
                      structure |-> r.structure, result |-> r.result, before |-> disk]
    /\ nops' = nops + 1
    /\ UNCHANGED <<includeHidden, order>>

\* ------------------------------------- the specification of the commands
\* pack by each of the three writers, then validate (and upgrade) what they
\* wrote
NextTools ==
    \/ Pack(<<N_A>>, <<N_out_snap>>)
    \/ PackLegacy(<<N_A>>, <<N_leg_snap>>)
    \/ PackV2(<<N_A>>, <<N_v2_snap>>)
    \/ \E archive \in ArchivePaths : Validate(archive)
    \/ \E archive \in ArchivePaths : Upgrade(archive)

SpecTools == Init /\ [][NextTools]_vars

\* ------------------------------------------------------------- v2 reader
\* textToFolder of the second version (src/unnamed/part_001): the archive is
\* one JSON document, restored from the content embedded in its entries
textToFolderV2(d, snapFilePath, outputFolder) ==
    IF ~existsSync(d, snapFilePath) THEN ReadFailure(d, "Snap file does not exist")
    ELSE IF isDirectory(d, snapFilePath) THEN ReadFailure(d, "EISDIR")
    ELSE IF ~parsesAsJSON(d[snapFilePath]) THEN ReadFailure(d, "Invalid snap file format")
    ELSE
      LET snapData == d[snapFilePath].doc
          d1 == IF existsSync(d, outputFolder) THEN d ELSE mkdirRecursive(d, outputFolder)
          d2 == restoreDirectories(d1, outputFolder, SelectSeq(snapData.structure, IsDirItem))
          d3 == restoreFilesLegacy(d2, outputFolder, SelectSeq(snapData.structure, IsFileItem))
      IN IF ~HasField(snapData, "metadata") \/ ~HasField(snapData, "structure")
         THEN ReadFailure(d, "Invalid snap file structure. Missing metadata or structure.")
         ELSE IF ~existsSync(d, outputFolder) /\ ~mkdirOk(d, outputFolder)
         THEN ReadFailure(d, "ENOTDIR")
         ELSE ReadSuccess(d3, snapData.metadata,
                          errorCountLegacy(d2, outputFolder,
                                           SelectSeq(snapData.structure, IsFileItem)))

UnpackV2(snapFilePath, outputFolder) ==
    /\ nops < MaxOps
    /\ LET r == textToFolderV2(disk, snapFilePath, outputFolder)
       IN /\ disk' = r.disk
          /\ last' = [op |-> "unpackV2", folder |-> outputFolder, path |-> snapFilePath,
                      structure |-> <<>>, result |-> r.result, before |-> disk,
                      errorCount |-> r.errorCount,
                      fresh |-> ~existsSync(disk, outputFolder)]
    /\ nops' = nops + 1
    /\ UNCHANGED <<ig, includeHidden, order>>

\* files with a NUL byte first, last, in the middle and alone, of the
\* lengths 1 to 4 that the base64 padding tells apart, next to files with
\* none
BinaryCandidates ==
    { Node(<<N_A, N_a>>, Directory),
      Node(<<N_A, N_a, N_c>>, RawFile(<<"NUL">>)),
      Node(<<N_A, N_a, N_e>>, RawFile(<<"A", "B", "x80">>)),
      Node(<<N_A, N_c>>, RawFile(<<"A", "NUL">>)),
      Node(<<N_A, N_c>>, RawFile(<<"NUL", "x80", "B">>)),
      Node(<<N_A, N_d>>, RawFile(<<"x80", "A", "NUL", "B">>)),
      Node(<<N_A, N_d>>, RawFile(<<"A", "B">>)),
      Node(<<N_A, N_e>>, RawFile(<<"x80">>)),
      Node(<<N_A, N_e>>, RawFile(<<>>)),
      Node(<<N_A, N_b_c>>, RawFile(<<"B", "NUL", "NUL", "A", "x80">>)) }

InitV2 ==
    /\ \E S \in Trees(BinaryCandidates) : disk = DiskOf(S)
    /\ ig = <<>>
    /\ includeHidden = FALSE
    /\ order \in Orders
    /\ last = NoCall
    /\ nops = 0

NextV2 ==
    \/ PackV2(<<N_A>>, <<N_v2_snap>>)
    \/ UnpackV2(<<N_v2_snap>>, <<N_R>>)

SpecV2 == InitV2 /\ [][NextV2]_vars

\* ------------------------------ the specification of packs over what is there
\* a file name of 245 characters: the file system takes it, and the sidecar
\* name made from it (content_<index>_<path>.bin) is longer than it takes
N_long == [i \in 1..245 |-> "a"]

\* source trees, and an output side that already holds a file at o.txt and
\* a folder R with a file in it
OverCandidates ==
    { Node(<<N_A, N_c>>, RawFile(<<"A">>)),
      Node(<<N_A, N_long>>, RawFile(<<"B">>)),
      Node(<<N_A, N_d>>, Directory),
      Node(<<N_A, N_d, N_e>>, RawFile(<<"A", "B">>)),
      Node(<<N_B, N_c>>, RawFile(<<"B">>)),
      Node(<<N_B, N_e>>, RawFile(<<"B", "B">>)),
      Node(<<N_out_txt>>, RawFile(<<"A", "A">>)),
      Node(<<N_R>>, Directory),
      Node(<<N_R, N_c>>, RawFile(<<"B", "A">>)) }

OverOrder == <<N_c, N_d, N_e, N_long>>

OverOutputs == {<<N_out_snap>>, <<N_out_txt>>, <<N_R>>}

InitOver ==
    /\ \E S \in {T \in SUBSET OverCandidates :
                    Cardinality(T) <= MaxEntries /\ WellFormedFault(T)} :
          disk = DiskOf(S)
    /\ ig = <<>>
    /\ includeHidden = FALSE
    /\ order \in {OverOrder, Reverse(OverOrder)}
    /\ last = NoCall
    /\ nops = 0

NextOver == \E f \in SrcFolders : \E out \in OverOutputs : Pack(f, out)

SpecOver == InitOver /\ [][NextOver]_vars

\* ------------------------------------------------------------ properties
TreePaths(d, root) == {relative(root, q) : q \in {x \in DOMAIN d : IsProperPrefix(root, x)}}

SubTree(d, root) == [p \in TreePaths(d, root) |-> d[join(root, p)]]

IsFileAt(d, p) == p \in DOMAIN d /\ d[p].type = "file"

WalkerCall == last.op \in {"pack", "stats"}

PackSucceeded == last.op = "pack" /\ last.result.success

\* the rule set a newly constructed instance applies to a folder
FreshRules(folderPath) == loadGitignore(disk, <<>>, folderPath)

\* the manifest the last pack wrote
Manifest == disk[Append(replaceSnapSuffix(last.path), N_metadata_json)].doc

SidecarPath(contentFile) ==
    join(replaceSnapSuffix(last.path), <<N_content, contentFile>>)

IsV3Reference(d, p) ==
    /\ IsFileAt(d, p)
    /\ d[p].fmt = "json"
    /\ HasField(d[p].doc, "type")
    /\ d[p].doc.type = "folder-snap-v3"

\* some rule that is not a negation matches the path or one of its ancestors
MatchesSomeRule(rules, relativePath) ==
    \E k \in 1..Len(relativePath) : \E i \in 1..Len(rules) :
        /\ ~rules[i].negative
        /\ RuleMatches(rules[i], relativePath[k], k < Len(relativePath))

NoPathIgnored(folderPath) ==
    \A p \in TreePaths(disk, folderPath) :
        /\ \A k \in 1..Len(p) : ~startsWithDot(p[k])
        /\ ~MatchesSomeRule(FreshRules(folderPath), p)

\* C1: a v3 pack of a tree none of whose paths is ignored, then an unpack
\* into a folder that did not exist, succeeds and gives back the same paths,
\* the same bytes of every file and the same directories.
C1_RoundTrip ==
    ( /\ last.op = "unpack"
      /\ last.fresh
      /\ IsV3Reference(disk, last.path)
      /\ disk[last.path].doc.metadata.sourceFolder = N_A
      /\ NoPathIgnored(<<N_A>>) )
    => ( /\ last.result.success
         /\ SubTree(disk, last.folder) = SubTree(disk, <<N_A>>) )

\* C2: in the manifest of a v3 pack any two distinct file entries have
\* distinct sidecar names, so every sidecar holds the bytes of its own file.
C2_DistinctSidecarNames ==
    PackSucceeded =>
        LET m == Manifest.structure
        IN /\ \A i, j \in DOMAIN m :
                (i # j /\ IsFileItem(m[i]) /\ IsFileItem(m[j]))
                    => m[i].contentFile # m[j].contentFile
           /\ \A i \in DOMAIN m :
                IsFileItem(m[i]) =>
                    disk[SidecarPath(m[i].contentFile)].bytes
                        = disk[join(last.folder, m[i].path)].bytes

\* the inline content of every file entry of the document was written
RestoredInline(doc, outputFolder) ==
    \A i \in DOMAIN doc.structure :
        IsFileItem(doc.structure[i]) =>
            /\ IsFileAt(disk, join(outputFolder, doc.structure[i].path))
            /\ disk[join(outputFolder, doc.structure[i].path)].bytes
                  = inlineBuffer(doc.structure[i])

\* C3: an archive of the legacy writer (prologue, then JSON between the
\* markers) does not parse as JSON; textToFolder falls back to the markers
\* and restores it from its inline content.
C3_LegacyFallback ==
    ( /\ last.op = "unpack"
      /\ IsFileAt(disk, last.path)
      /\ disk[last.path].fmt = "marked" )
    => ( /\ last.result.success
         /\ RestoredInline(disk[last.path].doc, last.folder) )

\* C4: an archive that parses as JSON and is not tagged folder-snap-v3 (a v2
\* archive) is taken as a flat archive and restored from its inline content.
C4_FlatJsonRestored ==
    ( /\ last.op = "unpack"
      /\ IsFileAt(disk, last.path)
      /\ disk[last.path].fmt = "json"
      /\ ~IsV3Reference(disk, last.path)
      /\ HasField(disk[last.path].doc, "structure") )
    => ( /\ last.result.success
         /\ RestoredInline(disk[last.path].doc, last.folder) )

\* C5: whatever calls came before on the instance, a pack or stats call
\* walks its folder as a newly constructed instance would: only the built-in
\* rules and the rule file of that call's folder apply.
C5_RulesOfThisCallOnly ==
    WalkerCall =>
        last.structure = readFolderStructure(disk, FreshRules(last.folder), includeHidden,
                                             order, last.folder, last.folder)

\* C6: a directory that a directory-only rule matches is skipped entirely:
\* the walk emits no entry for it and none for anything inside it.
C6_DirOnlyRuleSkipsDirectory ==
    WalkerCall =>
        \A p \in TreePaths(disk, last.folder) :
            ( /\ isDirectory(disk, join(last.folder, p))
              /\ TestOne(FreshRules(last.folder), basename(p), TRUE) )
            => \A i \in DOMAIN last.structure : ~IsPrefix(p, last.structure[i].path)

\* the files of the folder that the built-in rules followed by the folder's
\* rule file do not ignore, the last matching rule deciding
KeptFiles(folderPath) ==
    {p \in TreePaths(disk, folderPath) :
        /\ IsFileAt(disk, join(folderPath, p))
        /\ ~ignores(FreshRules(folderPath), p)}

\* the files of the folder that no rule matches at all
UnmatchedFiles(folderPath) ==
    {p \in TreePaths(disk, folderPath) :
        /\ IsFileAt(disk, join(folderPath, p))
        /\ ~MatchesSomeRule(FreshRules(folderPath), p)}

RECURSIVE SumBytes(_, _)
SumBytes(folderPath, paths) ==
    IF paths = {} THEN 0
    ELSE LET p == CHOOSE x \in paths : TRUE
         IN Len(disk[join(folderPath, p)].bytes) + SumBytes(folderPath, paths \ {p})

\* what pack and stats may show of the files of `allowed`, and nothing else
OnlyFilesOf(allowed) ==
    /\ \A i \in DOMAIN last.structure :
          IsFileItem(last.structure[i]) => last.structure[i].path \in allowed
    /\ last.op = "stats" =>
          /\ last.result.stats.files <= Cardinality(allowed)
          /\ last.result.stats.totalSize <= SumBytes(last.folder, allowed)
    /\ PackSucceeded =>
          /\ last.result.stats.totalFiles <= Cardinality(allowed)
          /\ \A i \in DOMAIN Manifest.structure :
                IsFileItem(Manifest.structure[i]) => Manifest.structure[i].path \in allowed
          /\ \A q \in DOMAIN disk :
                dirname(q) = Append(replaceSnapSuffix(last.path), N_content) =>
                    \E i \in DOMAIN Manifest.structure :
                        /\ IsFileItem(Manifest.structure[i])
                        /\ Manifest.structure[i].contentFile = basename(q)

\* C7 as stated: a file that a built-in rule or a rule of the root rule file
\* matches has no entry, no sidecar and no share in the counts.
C7_MatchedFileNeverPacked == WalkerCall => OnlyFilesOf(UnmatchedFiles(last.folder))

\* C7 amended: a file that the built-in rules followed by the root rule file
\* ignore, the last matching rule deciding, has no entry in the manifest, no
\* sidecar, and no share in totalFiles or in the counts and bytes of stats.
C7_IgnoredFileNeverPacked == WalkerCall => OnlyFilesOf(KeptFiles(last.folder))

\* a log file that the rule file re-includes was walked, and another file
\* was ignored by a rule
C7_Witness ==
    /\ WalkerCall
    /\ \E p \in KeptFiles(last.folder) : MatchesSomeRule(FreshRules(last.folder), p)
    /\ \E p \in TreePaths(disk, last.folder) :
          /\ IsFileAt(disk, join(last.folder, p))
          /\ p \notin KeptFiles(last.folder)
          /\ ~startsWithDot(basename(p))

\* the paths the walk asked shouldIgnore about: the children of the root and
\* of every directory it emitted
Asked == {p \in TreePaths(disk, last.folder) :
            Len(p) = 1 \/ \E i \in DOMAIN last.structure :
                            /\ IsDirItem(last.structure[i])
                            /\ last.structure[i].path = dirname(p)}

Emitted(p) == \E i \in DOMAIN last.structure : last.structure[i].path = p

\* C8: a path is left out exactly when (a) includeHidden is false and its
\* last segment starts with a dot, or (b) the instance's merged rule set
\* matches it; so a hidden path is out when includeHidden is false whatever
\* the rules say, and with includeHidden true the rules alone decide.
C8_ShouldIgnoreExactly ==
    WalkerCall =>
        \A p \in Asked :
            /\ ~Emitted(p) <=> ( \/ (~includeHidden /\ startsWithDot(basename(p)))
                                 \/ ignores(ig, p) )
            /\ (~includeHidden /\ startsWithDot(basename(p))) => ~Emitted(p)
            /\ includeHidden => (Emitted(p) <=> ~ignores(ig, p))

\* a hidden file that a negation rule names stayed out with includeHidden
\* false, and some path was emitted
C8_Witness ==
    /\ WalkerCall
    /\ ~includeHidden
    /\ \E p \in Asked :
          /\ startsWithDot(basename(p))
          /\ ~ignores(ig, p)
          /\ \E i \in 1..Len(ig) : ig[i].negative /\ ig[i].text = basename(p)
          /\ ~Emitted(p)
    /\ \E p \in Asked : Emitted(p)

\* every document on disk that holds an archive's entries
ArchiveDocs ==
    {disk[p].doc : p \in {q \in DOMAIN disk :
                            /\ disk[q].type = "file"
                            /\ disk[q].fmt \in {"json", "marked"}
                            /\ HasField(disk[q].doc, "structure")}}

\* C9: in every archive written, a directory entry comes before every entry
\* that lies inside that directory.
C9_DirectoryBeforeDescendants ==
    \A doc \in ArchiveDocs :
        \A i, j \in DOMAIN doc.structure :
            ( /\ IsDirItem(doc.structure[i])
              /\ IsProperPrefix(doc.structure[i].path, doc.structure[j].path) )
            => i < j

\* an archive of each format holds a directory followed by an entry inside it
C9_Witness ==
    \A fmt \in {"json", "marked"} :
        \E p \in DOMAIN disk :
            /\ disk[p].type = "file"
            /\ disk[p].fmt = fmt
            /\ HasField(disk[p].doc, "structure")
            /\ \E i, j \in DOMAIN disk[p].doc.structure :
                  /\ IsDirItem(disk[p].doc.structure[i])
                  /\ IsProperPrefix(disk[p].doc.structure[i].path,
                                    disk[p].doc.structure[j].path)

\* C10: the sidecar directory of a v3 pack is the output path without a
\* trailing .snap, with _snap appended; for an output path that does not end
\* in .snap it differs from the reference file, and the pack succeeds with
\* the reference file and the sidecar directory both present.
C10_SidecarDirectory ==
    (last.op = "pack" /\ isDirectory(disk, last.folder)) =>
        LET name == basename(last.path)
            stem == IF EndsWith(name, DotSnap)
                    THEN SubSeq(name, 1, Len(name) - Len(DotSnap)) ELSE name
            sidecarDir == Append(dirname(last.path), stem \o UnderSnap)
        IN /\ last.result.success
           /\ IsFileAt(disk, last.path)
           /\ isDirectory(disk, sidecarDir)
           /\ sidecarDir # last.path

\* the sidecar directory of the last pack and its content directory
SnapDir == replaceSnapSuffix(last.path)

ContentDir == Append(SnapDir, N_content)

\* C11: after a successful v3 pack to an output whose sidecar directory was
\* there from an earlier pack, that directory holds only content/, the
\* metadata.json and the sidecars of this run; nothing of the earlier run
\* is left.
C11_SnapDirectoryRecreated ==
    (PackSucceeded /\ existsSync(last.before, SnapDir)) =>
        \A q \in DOMAIN disk :
            IsProperPrefix(SnapDir, q) =>
                \/ q = ContentDir
                \/ q = Append(SnapDir, N_metadata_json) /\ disk[q].doc.metadata.timestamp = nops - 1
                \/ /\ dirname(q) = ContentDir
                   /\ \E i \in DOMAIN Manifest.structure :
                         /\ IsFileItem(Manifest.structure[i])
                         /\ Manifest.structure[i].contentFile = basename(q)
                         /\ disk[q].bytes
                               = disk[join(last.folder, Manifest.structure[i].path)].bytes

\* a second pack to the same output removed a sidecar the first pack left
C11_Witness ==
    /\ PackSucceeded
    /\ existsSync(last.before, SnapDir)
    /\ \E q \in DOMAIN last.before :
          /\ dirname(q) = ContentDir
          /\ q \notin DOMAIN disk
    /\ \E q \in DOMAIN disk : dirname(q) = ContentDir

\* C12 as stated: getFolderStats lets no exception out; on a missing
\* folder, on a path that is a file and on a tree with a directory that
\* cannot be listed it returns to its caller.
C12_StatsNeverThrows == last.op = "stats" => ~last.result.threw

\* C13: folderToText and textToFolder never throw; whatever the input and
\* whatever fails underneath they return success with the metadata or
\* success:false with an error message.
C13_PackAndUnpackNeverThrow ==
    last.op \in {"pack", "unpack"} =>
        /\ ~last.result.threw
        /\ \/ /\ last.result.success
              /\ last.result.stats # NoStats
              /\ last.result.error = ""
           \/ /\ ~last.result.success
              /\ last.result.stats = NoStats
              /\ last.result.error # ""

\* a pack whose directory listing failed returned a failure
C13_Witness ==
    /\ last.op = "pack"
    /\ isDirectory(last.before, last.folder)
    /\ \E q \in DOMAIN last.before :
          IsProperPrefix(last.folder, q) /\ last.before[q] = LockedDirectory
    /\ ~last.result.success
    /\ last.result.error = "EACCES"

SourceErrors == {"Source folder does not exist", "Source path is not a directory"}

\* C14: folderToText on a source that is absent or is not a directory
\* returns success:false with the error of the source test and leaves the
\* disk as it was: no output directory, no sidecar directory, no reference
\* file, and a sidecar directory that was there is still there.
C14_InvalidSourceChangesNothing ==
    ( /\ last.op = "pack"
      /\ \/ last.folder \notin DOMAIN last.before
         \/ last.before[last.folder].type # "directory" )
    => ( /\ ~last.result.success
         /\ ~last.result.threw
         /\ last.result.error \in SourceErrors
         /\ disk = last.before )

\* a pack of a path that is a file failed after an earlier pack had left
\* its sidecar directory, which is still there
C14_Witness ==
    /\ last.op = "pack"
    /\ IsFileAt(last.before, last.folder)
    /\ ~last.result.success
    /\ isDirectory(last.before, SnapDir)
    /\ isDirectory(disk, SnapDir)
    /\ IsFileAt(disk, Append(SnapDir, N_metadata_json))

\* the last call unpacked a v3 reference whose sidecar directory and
\* manifest were in order
UnpackedV3 ==
    /\ last.op = "unpack"
    /\ IsV3Reference(last.before, last.path)
    /\ LET m == join(dirname(last.path),
                     <<last.before[last.path].doc.snapDirectory, N_metadata_json>>)
       IN /\ IsFileAt(last.before, m)
          /\ last.before[m].fmt = "json"
          /\ HasField(last.before[m].doc, "metadata")
          /\ HasField(last.before[m].doc, "structure")

\* the manifest that unpack read
UnpackManifest ==
    last.before[join(dirname(last.path),
                     <<last.before[last.path].doc.snapDirectory, N_metadata_json>>)].doc

\* the sidecar bytes of an entry of that manifest, nothing when it is absent
UnpackSidecar(entry) ==
    LET q == join(dirname(last.path),
                  <<last.before[last.path].doc.snapDirectory, N_content, entry.contentFile>>)
    IN IF q \in DOMAIN last.before THEN last.before[q].bytes ELSE <<>>

\* the output folder was there or could be created
TargetAvailable == existsSync(last.before, last.folder) \/ mkdirOk(last.before, last.folder)

\* the entry is not on disk after the unpack
NotRestored(entry) ==
    IF IsFileItem(entry) THEN ~IsFileAt(disk, join(last.folder, entry.path))
    ELSE ~isDirectory(disk, join(last.folder, entry.path))

\* something on disk is in the way of the entry: a file where a directory of
\* its path has to be, or a directory where the file has to be
InTheWay(entry) ==
    LET t == join(last.folder, entry.path)
    IN \/ \E q \in Prefixes(dirname(t)) : IsFileAt(disk, q)
       \/ IsDirItem(entry) /\ IsFileAt(disk, t)
       \/ IsFileItem(entry) /\ t \in DOMAIN disk /\ disk[t].type = "directory"

FailedRestores == Len(SelectSeq(UnpackManifest.structure, NotRestored))

UnreadableEntry(entry) ==
    IsFileItem(entry) /\ ~readOk(last.before, join(last.folder, entry.path))

FailedReads == Len(SelectSeq(last.structure, UnreadableEntry))

\* C15 as stated: the successful result of unpack and of pack carries a
\* warning tally equal to the number of entries whose processing failed:
\* every directory and file that could not be created on unpack, every file
\* whose content could not be read on pack.
C15_WarningTally ==
    /\ (UnpackedV3 /\ last.result.success /\ FailedRestores > 0) =>
            /\ HasField(last.result, "warnings")
            /\ last.result.warnings = FailedRestores
    /\ (PackSucceeded /\ FailedReads > 0) =>
            /\ HasField(last.result, "warnings")
            /\ last.result.warnings = FailedReads

\* C16: on unpack an entry that cannot be created does not stop the others:
\* the result is success with the metadata of the archive, and every entry
\* of the manifest is on disk, a file with the bytes of its sidecar, unless
\* something is in its way.
C16_EntryFailureDoesNotAbort ==
    (UnpackedV3 /\ TargetAvailable) =>
        /\ last.result.success
        /\ last.result.stats = UnpackManifest.metadata
        /\ \A i \in DOMAIN UnpackManifest.structure :
              LET entry == UnpackManifest.structure[i]
              IN \/ InTheWay(entry)
                 \/ /\ ~NotRestored(entry)
                    /\ IsFileItem(entry) =>
                          disk[join(last.folder, entry.path)].bytes = UnpackSidecar(entry)

\* an entry could not be created and an entry after it was restored
C16_Witness ==
    /\ UnpackedV3
    /\ last.result.success
    /\ \E i, j \in DOMAIN UnpackManifest.structure :
          /\ i < j
          /\ NotRestored(UnpackManifest.structure[i])
          /\ IsFileItem(UnpackManifest.structure[j])
          /\ ~NotRestored(UnpackManifest.structure[j])
          /\ join(last.folder, UnpackManifest.structure[j].path) \notin DOMAIN last.before

\* the rule file and every directory of the source could be read
SourceWalkable ==
    /\ isDirectory(last.before, last.folder)
    /\ \A q \in DOMAIN last.before :
          IsPrefix(last.folder, q) =>
              \/ last.before[q].type = "directory" /\ last.before[q].readable
              \/ last.before[q].type = "file"
                    /\ (basename(q) = N_gitignore => last.before[q].readable)

\* C17: in a v3 pack a file whose content cannot be read does not fail the
\* pack: the pack succeeds, the file keeps its entry in the manifest and its
\* share in totalFiles, its sidecar is written empty, and every other file
\* gets its sidecar with its bytes.
C17_UnreadableFileKeepsPackGoing ==
    (last.op = "pack" /\ SourceWalkable) =>
        /\ last.result.success
        /\ last.result.stats.totalFiles = countFiles(last.structure)
        /\ Len(Manifest.structure) = Len(last.structure)
        /\ \A i \in DOMAIN last.structure :
              IsFileItem(last.structure[i]) =>
                  /\ IsFileItem(Manifest.structure[i])
                  /\ Manifest.structure[i].path = last.structure[i].path
                  /\ IsFileAt(disk, SidecarPath(Manifest.structure[i].contentFile))
                  /\ disk[SidecarPath(Manifest.structure[i].contentFile)].bytes
                        = IF UnreadableEntry(last.structure[i]) THEN <<>>
                          ELSE last.before[join(last.folder, last.structure[i].path)].bytes

\* a file that could not be read got an empty sidecar and a file after it
\* got its bytes
C17_Witness ==
    /\ PackSucceeded
    /\ \E i, j \in DOMAIN last.structure :
          /\ i < j
          /\ UnreadableEntry(last.structure[i])
          /\ last.before[join(last.folder, last.structure[i].path)].bytes # <<>>
          /\ disk[SidecarPath(Manifest.structure[i].contentFile)].bytes = <<>>
          /\ IsFileItem(last.structure[j])
          /\ disk[SidecarPath(Manifest.structure[j].contentFile)].bytes # <<>>

\* the last call was an unpack of a file that parsed as a v3 reference
UnpackV3Call == last.op = "unpack" /\ IsV3Reference(last.before, last.path)

ReferredSnapDir == join(dirname(last.path), <<last.before[last.path].doc.snapDirectory>>)

ReferredManifest == Append(ReferredSnapDir, N_metadata_json)

\* the whole-archive problems: no sidecar directory, no metadata.json, or a
\* manifest (unparseable ones included) without its metadata or its entries
StructuralProblem ==
    \/ ReferredSnapDir \notin DOMAIN last.before
    \/ ReferredManifest \notin DOMAIN last.before
    \/ last.before[ReferredManifest].fmt # "json"
    \/ ~HasField(last.before[ReferredManifest].doc, "metadata")
    \/ ~HasField(last.before[ReferredManifest].doc, "structure")

\* the output folder is absent and a file lies on the path to it
TargetBlocked ==
    /\ last.folder \notin DOMAIN last.before
    /\ \E q \in Prefixes(last.folder) : IsFileAt(last.before, q)

C19_CorruptArchiveFails ==
    ( /\ last.op = "unpack"
      /\ IsFileAt(last.before, last.path)
      /\ last.before[last.path].fmt = "raw" )
    => ( /\ ~last.result.success
         /\ ~last.result.threw
         /\ last.result.error = "Invalid snap file format"
         /\ disk = last.before )

\* a reference file that was overwritten with bytes that are no JSON was
\* given to unpack
C19_Witness ==
    /\ last.op = "unpack"
    /\ last.path = <<N_out_snap>>
    /\ IsFileAt(last.before, last.path)
    /\ last.before[last.path].fmt = "raw"
    /\ isDirectory(last.before, replaceSnapSuffix(last.path))
    /\ ~last.result.success

\* the archive files on disk: what a writer wrote at its output path (the
\* manifest inside a sidecar directory is not one)
ArchiveFiles ==
    {p \in DOMAIN disk :
        /\ disk[p].type = "file"
        /\ disk[p].fmt \in {"json", "marked"}
        /\ basename(p) # N_metadata_json
        /\ HasField(disk[p].doc, "metadata")}

\* C20 as stated: the version in an archive's metadata tells its shape.  An
\* archive with version "3.0" is a v3 reference with its sidecar directory
\* and is read through the sidecars; an archive without a version is a
\* legacy archive and is read through the legacy reader, which restores it.
C20_VersionDiscriminates ==
    /\ \A p \in ArchiveFiles :
          /\ ( HasField(disk[p].doc.metadata, "version")
                  /\ disk[p].doc.metadata.version = "3.0" )
             => ( /\ IsV3Reference(disk, p)
                  /\ isDirectory(disk, replaceSnapSuffix(p)) )
          /\ ~HasField(disk[p].doc.metadata, "version") => disk[p].fmt = "marked"
    /\ ( /\ last.op = "unpack"
         /\ last.path \in ArchiveFiles
         /\ ~HasField(disk[last.path].doc.metadata, "version") )
       => ( /\ last.result.success
            /\ RestoredInline(disk[last.path].doc, last.folder) )

\* the file at p is an archive of the legacy writer: the JSON of metadata
\* and entries between the two markers
IsLegacyArchive(d, p) ==
    /\ IsFileAt(d, p)
    /\ d[p].fmt = "marked"
    /\ HasField(d[p].doc, "metadata")
    /\ HasField(d[p].doc, "structure")

\* the manifest a v3 reference at p designates, in order
HasV3Manifest(d, p) ==
    /\ IsV3Reference(d, p)
    /\ LET m == join(dirname(p), <<d[p].doc.snapDirectory, N_metadata_json>>)
       IN IsFileAt(d, m) /\ d[m].fmt = "json" /\ HasField(d[m].doc, "metadata")

\* C21 as stated: validateSnapFile reads metadata only.  On an archive of
\* the legacy writer it returns valid with that archive's metadata, which
\* has no version and is shown as "legacy"; on a v3 archive it returns valid
\* with the metadata and counts of the manifest; and the disk is the same
\* after the call as before.
C21_ValidateReadsMetadata ==
    last.op = "validate" =>
        /\ disk = last.before
        /\ IsLegacyArchive(disk, last.path) =>
              /\ last.result.valid
              /\ last.result.metadata = disk[last.path].doc.metadata
              /\ last.version = "legacy"
        /\ HasV3Manifest(disk, last.path) =>
              /\ last.result.valid
              /\ last.result.metadata
                    = disk[join(dirname(last.path),
                                <<disk[last.path].doc.snapDirectory, N_metadata_json>>)].doc.metadata
              /\ last.result.metadata.totalFiles
                    = countFiles(disk[join(dirname(last.path),
                                <<disk[last.path].doc.snapDirectory, N_metadata_json>>)].doc.structure)

\* the last call was a successful pack made right after a stats call on the
\* same folder had returned
StatsThenPack ==
    /\ PackSucceeded
    /\ last.prev.op = "stats"
    /\ last.prev.folder = last.folder
    /\ ~last.prev.result.threw

\* C22: getFolderStats of a folder followed by folderToText of the same
\* folder, the tree unchanged in between, agree: stats.files is the
\* manifest's totalFiles, stats.directories its totalDirectories, and
\* stats.totalSize the sum of the sizes of the manifest's file entries.
C22_StatsAndPackAgree ==
    StatsThenPack =>
        /\ last.prev.result.stats.files = Manifest.metadata.totalFiles
        /\ last.prev.result.stats.directories = Manifest.metadata.totalDirectories
        /\ last.prev.result.stats.totalSize
              = SumSizes(SelectSeq(Manifest.structure, IsFileItem))
        /\ last.prev.result.stats.files = countFiles(Manifest.structure)
        /\ last.prev.result.stats.directories = countDirectories(Manifest.structure)

\* stats and pack walked a tree where the filter left something out, and
\* counted files, a directory and bytes
C22_Witness ==
    /\ StatsThenPack
    /\ last.prev.result.stats.files >= 2
    /\ last.prev.result.stats.directories >= 1
    /\ last.prev.result.stats.totalSize >= 3
    /\ \E p \in TreePaths(disk, last.folder) : ~Emitted(p)

\* what getFolderStats returns for the folder on a newly constructed
\* instance with the same options
FreshStats(folderPath) ==
    getFolderStats(disk, <<>>, includeHidden, order, folderPath).result.stats

\* C23 as stated: stats is idempotent.  With the tree unchanged a stats call
\* returns the file count, directory count and byte total that the stats
\* call before it on the same instance returned for that folder, and that a
\* call on any other instance returns for it.
C23_StatsIdempotent ==
    (last.op = "stats" /\ ~last.result.threw) =>
        /\ ( /\ last.prev.op = "stats"
             /\ last.prev.folder = last.folder
             /\ ~last.prev.result.threw )
           => last.result.stats = last.prev.result.stats
        /\ last.result.stats = FreshStats(last.folder)

HasNul(bytes) == \E i \in 1..Len(bytes) : bytes[i] = "NUL"

\* the last call read a v2 archive of folder A that is on disk as written
UnpackedV2 ==
    /\ last.op = "unpackV2"
    /\ last.result.success
    /\ last.before[last.path].doc.metadata.sourceFolder = N_A

\* C24: the v2 writer stores a file as base64 exactly when its bytes hold a
\* NUL anywhere, and as utf8 text otherwise; the entry's size is the source
\* byte length under either encoding; and v2 unpack of the archive writes
\* every file that holds a NUL with the bytes of the source.
C24_BinaryFidelity ==
    /\ (last.op = "packV2" /\ last.result.success) =>
          \A i \in DOMAIN disk[last.path].doc.structure :
              LET entry == disk[last.path].doc.structure[i]
                  bytes == last.before[join(last.folder, entry.path)].bytes
              IN IsFileItem(entry) =>
                    /\ entry.encoding = "base64" <=> HasNul(bytes)
                    /\ entry.encoding \in {"base64", "utf8"}
                    /\ entry.encoding = "base64" => base64Decode(entry.content) = bytes
                    /\ entry.encoding = "utf8" => entry.content = utf8Decode(bytes)
                    /\ entry.size = Len(bytes)
    /\ UnpackedV2 =>
          \A i \in DOMAIN disk[last.path].doc.structure :
              LET entry == disk[last.path].doc.structure[i]
              IN (IsFileItem(entry) /\ HasNul(disk[join(<<N_A>>, entry.path)].bytes)) =>
                    /\ IsFileAt(disk, join(last.folder, entry.path))
                    /\ disk[join(last.folder, entry.path)].bytes
                          = disk[join(<<N_A>>, entry.path)].bytes

\* an archive with a file whose NUL is not its first byte, of a length that
\* needs base64 padding, and a file without a NUL was unpacked
C24_Witness ==
    /\ UnpackedV2
    /\ last.fresh
    /\ \E i, j \in DOMAIN disk[last.path].doc.structure :
          LET e1 == disk[last.path].doc.structure[i]
              e2 == disk[last.path].doc.structure[j]
          IN /\ IsFileItem(e1) /\ IsFileItem(e2)
             /\ e1.encoding = "base64"
             /\ disk[join(<<N_A>>, e1.path)].bytes[1] # "NUL"
             /\ e1.content[Len(e1.content)] = "="
             /\ disk[join(last.folder, e1.path)].bytes = disk[join(<<N_A>>, e1.path)].bytes
             /\ e2.encoding = "utf8"

\* the directory entries of the manifest that unpack read, in archive order
UnpackDirectories == SelectSeq(UnpackManifest.structure, IsDirItem)

\* the number of calls made for the output folder itself
FolderCalls == IF last.fresh THEN 1 ELSE 0

\* the path was there before the unpack or a call before the k-th made it
MadeBefore(dir, k) ==
    \/ existsSync(last.before, dir)
    \/ \E j \in 1..(k - 1) :
          /\ last.calls[j].call = "mkdir"
          /\ last.calls[j].ok
          /\ IsPrefix(dir, last.calls[j].path)

SidecarOf(outputPath) ==
    LET name == basename(outputPath)
        stem == IF EndsWith(name, DotSnap)
                THEN SubSeq(name, 1, Len(name) - Len(DotSnap)) ELSE name
    IN Append(dirname(outputPath), stem \o UnderSnap)

\* C26 as stated: folderToText removes nothing from disk except what is
\* inside a sidecar directory (_snap) that was there for the archive being
\* written.  Whatever was at the output path itself, a file or a directory
\* with its contents, is still there, and so is everything in the source
\* tree.
C26_PackRemovesOnlySidecars ==
    last.op = "pack" =>
        /\ \A q \in DOMAIN last.before :
              IsPrefix(SidecarOf(last.path), q) \/ q \in DOMAIN disk
        /\ \A q \in DOMAIN last.before :
              IsPrefix(last.path, q) =>
                  /\ q \in DOMAIN disk
                  /\ disk[q].type = last.before[q].type
        /\ \A q \in DOMAIN last.before :
              IsPrefix(last.folder, q) => (q \in DOMAIN disk /\ disk[q] = last.before[q])

\* the sidecar directory the v3 reference at p designates
DesignatedDir(d, p) == join(dirname(p), <<d[p].doc.snapDirectory>>)

\* a v3 archive at p that unpack can restore: the reference, the manifest
\* with metadata and entries, and the sidecar of every file entry
RestorableV3(d, p) ==
    /\ HasV3Manifest(d, p)
    /\ LET doc == d[Append(DesignatedDir(d, p), N_metadata_json)].doc
       IN /\ HasField(doc, "structure")
          /\ \A i \in DOMAIN doc.structure :
                IsFileItem(doc.structure[i]) =>
                    IsFileAt(d, join(DesignatedDir(d, p),
                                     <<N_content, doc.structure[i].contentFile>>))

\* C28 as stated: a pack that returns success:false on an output path that
\* held a restorable v3 archive leaves that archive as it was: the
\* reference file, metadata.json and the sidecars are intact; and a
\* reference file at the output path never designates a sidecar directory
\* without metadata.json.
C28_FailedPackKeepsArchive ==
    last.op = "pack" =>
        /\ (~last.result.success /\ RestorableV3(last.before, last.path)) =>
              /\ RestorableV3(disk, last.path)
              /\ disk[last.path] = last.before[last.path]
              /\ SubTree(disk, DesignatedDir(disk, last.path))
                    = SubTree(last.before, DesignatedDir(disk, last.path))
        /\ IsV3Reference(disk, last.path) =>
              IsFileAt(disk, Append(DesignatedDir(disk, last.path), N_metadata_json))

\* C27 as stated: every directory and file that textToFolder creates or
\* writes lies inside outputFolder (or is a directory on the way to it),
\* whatever the archive holds, entry paths with '..' segments and absolute
\* entry paths included.
C27_RestoreStaysInside ==
    last.op = "unpack" =>
        \A q \in DOMAIN disk :
            (q \notin DOMAIN last.before \/ disk[q] # last.before[q])
                => (IsPrefix(last.folder, q) \/ IsPrefix(q, last.folder))

\* C29 as stated: an unpack that returns success:false has created no
\* output folder, no directory and no file: the disk is as it was, also
\* when the failure is a manifest without its metadata or its entries.
C29_FailedUnpackChangesNothing ==
    (last.op = "unpack" /\ ~last.result.success) => disk = last.before

\* the last call upgraded an archive of the legacy writer
UpgradedLegacy == last.op = "upgrade" /\ IsLegacyArchive(last.before, last.source)

LegacyDoc == last.before[last.source].doc

\* the manifest of the v3 archive the upgrade wrote
UpgradedManifest == disk[Append(replaceSnapSuffix(last.path), N_metadata_json)].doc

EntryPaths(structure, type) ==
    {structure[i].path : i \in {j \in DOMAIN structure : structure[j].type = type}}

\* C30 as stated: upgradeLegacySnap of a valid legacy archive succeeds and
\* writes a v3 archive with the same content: the same file paths, each
\* sidecar holding the bytes of the legacy entry's content, the same
\* directories (those without a file included), totalFiles and
\* totalDirectories of the legacy metadata, and its sourceFolder; and the
\* temporary folder is gone when the call returns.
C30_UpgradeKeepsContent ==
    UpgradedLegacy =>
        /\ last.result.success
        /\ RestorableV3(disk, last.path)
        /\ EntryPaths(UpgradedManifest.structure, "file")
              = EntryPaths(LegacyDoc.structure, "file")
        /\ \A i \in DOMAIN LegacyDoc.structure :
              IsFileItem(LegacyDoc.structure[i]) =>
                  \E j \in DOMAIN UpgradedManifest.structure :
                      /\ UpgradedManifest.structure[j].path = LegacyDoc.structure[i].path
                      /\ IsFileItem(UpgradedManifest.structure[j])
                      /\ disk[SidecarPath(UpgradedManifest.structure[j].contentFile)].bytes
                            = inlineBuffer(LegacyDoc.structure[i])
        /\ EntryPaths(UpgradedManifest.structure, "directory")
              = EntryPaths(LegacyDoc.structure, "directory")
        /\ UpgradedManifest.metadata.totalFiles = LegacyDoc.metadata.totalFiles
        /\ UpgradedManifest.metadata.totalDirectories = LegacyDoc.metadata.totalDirectories
        /\ UpgradedManifest.metadata.sourceFolder = LegacyDoc.metadata.sourceFolder
        /\ \A q \in DOMAIN disk : ~IsPrefix(last.folder, q)

====
